---- MODULE Spec2Model ----
(***************************************************************************)
(* Verification model of the pull-request merge use case                   *)
(* (pullreq.Controller.Merge) and of the collaborators it touches: the     *)
(* per-repository mutex, the pull-request store, the protection rules and  *)
(* the git RPC adapter; of the branch protection rule (protection.Branch);  *)
(* of the commit-files use case (repo.Controller.CommitFiles); and of the   *)
(* blame reader of the git adapter (gitea.BlameReader).                    *)
(***************************************************************************)
EXTENDS Integers, Sequences, FiniteSets, TLC

\* ------------------------------------------------------------------ bounds
\* Number of Merge invocations (requests) that may run concurrently.
NumInv == 2

Invs == 1..NumInv

\* Largest number of violation entries one policy of a rule returns.
MaxViolations == 2

\* Largest number of file actions of one CommitFiles request.
MaxActions == 2

\* Largest number of lines of the file a blame stream reports on.
MaxBlameLines == 3

\* Largest length of an e-mail field of a blame header.
MaxEmailLen == 4

\* Largest number of requests of one GetCommitDivergences call.
MaxRequests == 2

\* Largest number of commits of a page of ListCommits.
MaxPage == 3

\* ------------------------------------------------------- repositories, PRs
Repos == {1, 2}

\* types.Repository as far as Merge reads it.
Repo(r) == [ID |-> r, GitUID |-> <<"git", r>>, Path |-> <<"space", r>>]

\* (target repository ID, pull request number) of the pull requests that exist:
\* both target repository 1; repository 2 is a fork of it, so that the
\* branches of the pull requests exist in both repositories.
PRKeys == {<<1, 1>>, <<1, 2>>}

\* Commit SHAs: <<"src", n>> are commits of source branches, <<"base", r>> the
\* initial head of repository r's target branch, <<"merge", i>> the commit
\* the merge of invocation i creates.  NoSHA is the empty string.
NoSHA == <<>>
SourceSHAs == {<<"src", 1>>, <<"src", 2>>}

\* The principal of bootstrap.NewSystemServiceSession().
SystemPrincipal == <<"system">>

\* The principal of the session of invocation i.
SessionPrincipal(i) == <<"user", i>>

\* enum.PullReqState, enum.MergeCheckStatus
StateOpen == "open"
StateMerged == "merged"
StateClosed == "closed"
Unchecked == "unchecked"
Mergeable == "mergeable"
Conflict == "conflict"

\* ------------------------------------------------------------ value shapes
\* A row of the pull request store (types.PullReq), the fields Merge uses.
PullReq(key, srcRepo, state, draft, status, conflicts) ==
    [ID |-> key, Number |-> key[2], Version |-> 0,
     TargetRepoID |-> key[1], SourceRepoID |-> srcRepo,
     SourceBranch |-> <<"feature", key>>, TargetBranch |-> <<"main">>,
     State |-> state, IsDraft |-> draft, SourceSHA |-> <<"src", 1>>,
     Merged |-> NoSHA, MergedBy |-> NoSHA, MergeMethod |-> "",
     MergeCheckStatus |-> status, MergeTargetSHA |-> NoSHA,
     MergeBaseSHA |-> NoSHA, MergeSHA |-> NoSHA,
     MergeConflicts |-> conflicts, ActivitySeq |-> 0]

NoPR == [ID |-> <<>>]

NoFiles == <<>>
ConflictFiles == <<"a.txt">>

\* The three results of Merge: (*types.MergeResponse, *types.MergeViolations, error).
NoRes == [kind |-> "none"]
Err(msg) == [kind |-> "error", msg |-> msg]
Violations(conflicts, rv) ==
    [kind |-> "violations", ConflictFiles |-> conflicts, RuleViolations |-> rv]
Response(dry, sha, deleted, conflicts, rv) ==
    [kind |-> "response", DryRun |-> dry, SHA |-> sha, BranchDeleted |-> deleted,
     ConflictFiles |-> conflicts, RuleViolations |-> rv]

ErrAlreadyMerged == "Pull request already merged"
ErrMustBeOpen == "Pull request must be open"
ErrNewerCommit == "A newer commit is available. Only the latest commit can be merged."
ErrDraft == "Draft pull requests can't be merged. Clear the draft flag first."
ErrUpdate == "failed to update pull request"
ErrMergeCheck == "merge check execution failed"

MergeMethods == {"merge", "squash"}

\* A request is the MergeInput and the repoRef / pullreqNum arguments.  It is
\* fixed when Merge is called and never changes; the model draws each part
\* of it in the step that first reads it, which yields the same behaviours as
\* drawing it at the call:
\*   Method, RepoRef           lines 56-63   (Start)
\*   PullreqNum, SourceSHA     lines 84-97   (FindPR)
\*   BypassRules, DryRun       lines 155-172 (Verify)
RequestMethods == MergeMethods \cup {"bogus"}
RepoRefs == {k[1] : k \in PRKeys}
PullreqNums == {k[2] : k \in PRKeys}

NoInput == [Method |-> ""]

\* No rule verification, CommitFiles invocation or blame is going on.
NoVerify == [fn |-> ""]
NoCommitFiles == [pc |-> "idle"]
NoBlame == [pc |-> "idle"]
NoAdapterCall == [fn |-> "idle", pc |-> "idle"]

\* Locals that hold nothing yet.
NoRules == [out |-> [DeleteSourceBranch |-> FALSE], violations |-> << >>]
NoMerge == [err |-> "none"]

VARIABLES
    pc,          \* position of each Merge invocation
    in,          \* the request, as far as the invocation has read it
    targetRepo,  \* local targetRepo (0 while not looked up)
    pr,          \* local pr: the row as read by FindByNumber / returned by UpdateOptLock
    wp,          \* local targetWriteParams / sourceWriteParams and sourceRepo
    rules,       \* local ruleOut and violations of MergeVerify
    mo,          \* local mergeOutput
    res,         \* the (response, violations, error) triple returned
    log,         \* the calls each invocation made, in order
    mutex,       \* mutex key -> invocation holding it (0: free)
    prRows,      \* pull request store
    refs,        \* git: head of the target branch per repository
    commits,     \* git: the merge commits written to target branches
    branches,    \* git: the branches that exist besides main, as <<RepoUID, name>>
    gitCalls,    \* adapter calls made, per invocation
    events,      \* merged events published
    activities,  \* merge activity entries written
    rv,          \* protection.Branch: the verification being made, its result
    cf,          \* CommitFiles: the invocation's position, locals and result
    bl,          \* BlameReader: the stream, the reader's fields, the parts read
    ad           \* git adapter and githook: the call being made, its locals and its result

locals == <<in, targetRepo, pr, wp, rules, mo>>
shared == <<mutex, prRows, refs, commits, branches, gitCalls, events, activities>>
mergeVars == <<pc, in, targetRepo, pr, wp, rules, mo, res, log,
               mutex, prRows, refs, commits, branches, gitCalls, events, activities>>
vars == <<mergeVars, rv, cf, bl, ad>>

\* ---------------------------------------------------------- initial state
\* Pull request <<1,1>> is an open pull request of repository 1 whose merge
\* check is in any state; <<1,2>> comes from the fork and is open, a draft or
\* closed.
InitRows ==
    {[k \in PRKeys |->
        IF k = <<1, 1>> THEN PullReq(k, 1, StateOpen, FALSE, c[1], c[2])
        ELSE PullReq(k, 2, c[3], c[4], Unchecked, NoFiles)] :
     c \in {<<Unchecked, NoFiles, StateOpen, FALSE>>,
            <<Mergeable, NoFiles, StateOpen, TRUE>>,
            <<Conflict, ConflictFiles, StateClosed, FALSE>>}}

MutexKeys == {<<Repo(r).GitUID, n>> : r \in Repos, n \in 0..2}

Init ==
    /\ pc = [i \in Invs |-> "idle"]
    /\ in = [i \in Invs |-> NoInput]
    /\ targetRepo = [i \in Invs |-> Repo(0)]
    /\ pr = [i \in Invs |-> NoPR]
    /\ wp = [i \in Invs |-> <<>>]
    /\ rules = [i \in Invs |-> NoRules]
    /\ mo = [i \in Invs |-> NoMerge]
    /\ res = [i \in Invs |-> NoRes]
    /\ log = [i \in Invs |-> <<>>]
    /\ mutex = [k \in MutexKeys |-> 0]
    /\ prRows \in InitRows
    /\ refs = [r \in Repos |-> <<"base", r>>]
    /\ commits = {}
    /\ branches = {<<Repo(r).GitUID, prRows[k].SourceBranch>> : r \in Repos, k \in PRKeys}
    /\ gitCalls = [i \in Invs |-> <<>>]
    /\ events = {}
    /\ activities = {}
    /\ rv = NoVerify
    /\ cf = NoCommitFiles
    /\ bl = NoBlame
    /\ ad = NoAdapterCall

\* The initial state of the use cases in which pull requests play no part.
QuietInit == Init /\ \A k \in PRKeys : prRows[k].MergeCheckStatus = Unchecked

\* ------------------------------------------------------------ Merge: steps
\* enum.MergeMethod.Sanitize: a known method is kept, anything else is refused.
Sanitize(m) == IF m \in MergeMethods THEN <<m, TRUE>> ELSE <<"merge", FALSE>>

\* The invocation returns r before the mutex was locked.
ReturnUnlocked(i, r, calls) ==
    /\ res' = [res EXCEPT ![i] = r]
    /\ log' = [log EXCEPT ![i] = @ \o calls]
    /\ pc' = [pc EXCEPT ![i] = "return"]
    /\ UNCHANGED <<rv, cf, bl, ad>>

\* The mutex is unlocked by hand on the way to a response only: a return of
\* an error leaves it locked.
DeferredUnlock_NotOnError(r) == IF r.kind = "error" THEN "return" ELSE "unlock"

\* defer func() { _ = mutex.Unlock(ctx) }(): where a return statement that
\* produced r continues once the mutex is locked.
DeferredUnlock(r) == "unlock"

\* The invocation returns r while it holds the mutex.
Return(i, r, calls) ==
    /\ res' = [res EXCEPT ![i] = r]
    /\ log' = [log EXCEPT ![i] = @ \o calls]
    /\ pc' = [pc EXCEPT ![i] = DeferredUnlock(r)]
    /\ UNCHANGED <<rv, cf, bl, ad>>

\* The invocation goes on to step next.
Goto(i, next, calls) ==
    /\ res' = res
    /\ log' = [log EXCEPT ![i] = @ \o calls]
    /\ pc' = [pc EXCEPT ![i] = next]
    /\ UNCHANGED <<rv, cf, bl, ad>>

\* The pull request is read right away, without the lock.
StepAfterAccess_NoLock == "find"

\* Lines 68-79: once the repository is known the next thing Merge does is to
\* lock the mutex; the pull request is read only after that.
StepAfterAccess == "lock"

\* Lines 56-66: sanitize the method, look the target repository up and check
\* the push permission.
Start(i) ==
    /\ pc[i] = "idle"
    /\ \E method \in RequestMethods, repoRef \in RepoRefs, access \in BOOLEAN :
        LET s == Sanitize(method) IN
        /\ in' = [in EXCEPT ![i] = [Method |-> IF s[2] THEN s[1] ELSE method,
                                    RepoRef |-> repoRef]]
        /\ IF ~s[2]
           THEN /\ ReturnUnlocked(i, Err("unsupported merge method"), <<"Sanitize">>)
                /\ UNCHANGED targetRepo
           ELSE IF ~access
           THEN /\ ReturnUnlocked(i, Err("failed to acquire access to target repo"),
                                  <<"Sanitize", "RepoAccess">>)
                /\ UNCHANGED targetRepo
           ELSE /\ Goto(i, StepAfterAccess, <<"Sanitize", "RepoAccess">>)
                /\ targetRepo' = [targetRepo EXCEPT ![i] = Repo(repoRef)]
    /\ UNCHANGED <<pr, wp, rules, mo>>
    /\ UNCHANGED shared

\* A lock of its own for every request instead of one per repository.
MergeLockKey_PerRequest(i) == <<targetRepo[i].GitUID, i>>

\* Line 72: c.newMutexForPR(targetRepo.GitUID, 0).
MergeLockKey(i) == <<targetRepo[i].GitUID, 0>>

\* Lines 76-82: mutex.Lock succeeds once no invocation holds the key.
AcquireLock(i) ==
    /\ pc[i] = "lock"
    /\ mutex[MergeLockKey(i)] = 0
    /\ mutex' = [mutex EXCEPT ![MergeLockKey(i)] = i]
    /\ Goto(i, "find", <<"Lock">>)
    /\ UNCHANGED locals
    /\ UNCHANGED <<prRows, refs, commits, branches, gitCalls, events, activities>>

\* Lines 72-79: creating the mutex fails, or mutex.Lock gives up (its context
\* ended, or it ran out of retries).
LockError(i) ==
    /\ pc[i] = "lock"
    /\ ReturnUnlocked(i, Err("lock"), <<>>)
    /\ UNCHANGED locals
    /\ UNCHANGED shared

\* The checks without the comparison of the source SHA.
ValidatePR_NoSHACheck(row, input) ==
    IF row.Merged # NoSHA THEN ErrAlreadyMerged
    ELSE IF row.State # StateOpen THEN ErrMustBeOpen
    ELSE IF row.IsDraft THEN ErrDraft
    ELSE ""

\* The checks without the one for a merged pull request.
ValidatePR_NoMergedCheck(row, input) ==
    IF row.State # StateOpen THEN ErrMustBeOpen
    ELSE IF row.SourceSHA # input.SourceSHA THEN ErrNewerCommit
    ELSE IF row.IsDraft THEN ErrDraft
    ELSE ""

\* The checks with the comparison of the source SHA made first.
ValidatePR_SHAFirst(row, input) ==
    IF row.SourceSHA # input.SourceSHA THEN ErrNewerCommit
    ELSE IF row.Merged # NoSHA THEN ErrAlreadyMerged
    ELSE IF row.State # StateOpen THEN ErrMustBeOpen
    ELSE IF row.IsDraft THEN ErrDraft
    ELSE ""

\* Lines 89-106: the checks of the row read under the lock, in order.
ValidatePR(row, input) ==
    IF row.Merged # NoSHA THEN ErrAlreadyMerged
    ELSE IF row.State # StateOpen THEN ErrMustBeOpen
    ELSE IF row.SourceSHA # input.SourceSHA THEN ErrNewerCommit
    ELSE IF row.IsDraft THEN ErrDraft
    ELSE ""

\* Lines 84-106: read the pull request under the lock and validate it.
FindPR(i) ==
    /\ pc[i] = "find"
    /\ \E pullreqNum \in PullreqNums, sourceSHA \in SourceSHAs, found \in BOOLEAN :
        LET input == [Method |-> in[i].Method, RepoRef |-> in[i].RepoRef,
                      PullreqNum |-> pullreqNum, SourceSHA |-> sourceSHA]
        IN  /\ in' = [in EXCEPT ![i] = input]
            /\ IF ~found \/ <<targetRepo[i].ID, pullreqNum>> \notin PRKeys
               THEN /\ Return(i, Err("failed to get pull request by number"), <<"PRFind">>)
                    /\ UNCHANGED pr
               ELSE LET row == prRows[<<targetRepo[i].ID, pullreqNum>>]
                        e == ValidatePR(row, input)
                    IN  /\ pr' = [pr EXCEPT ![i] = row]
                        /\ IF e # "" THEN Return(i, Err(e), <<"PRFind">>)
                           ELSE Goto(i, "verify", <<"PRFind">>)
    /\ UNCHANGED <<targetRepo, wp, rules, mo>>
    /\ UNCHANGED shared

\* ------------------------------------------------------- protection rules
\* The branch rules of each repository (protection.Branch): the bypass policy
\* and whether the pull request policy asks to delete the source branch.
RepoRules(r) ==
    IF r = 1
    THEN << [Bypass |-> [UserIDs |-> {SessionPrincipal(1)}, RepoOwners |-> FALSE],
             DeleteBranch |-> TRUE],
            [Bypass |-> [UserIDs |-> {}, RepoOwners |-> TRUE],
             DeleteBranch |-> FALSE] >>
    ELSE << [Bypass |-> [UserIDs |-> {}, RepoOwners |-> FALSE],
             DeleteBranch |-> FALSE] >>

\* DefBypass.matches
BypassMatches(bypass, actor, isRepoOwner) ==
    (bypass.RepoOwners /\ isRepoOwner) \/ actor \in bypass.UserIDs

\* DefPullReq.MergeVerify of rule number k: hit says whether the pull request
\* violates the rule's pull request policy.
PullReqMergeVerify(k, rule, hit) ==
    [out |-> [DeleteSourceBranch |-> rule.DeleteBranch],
     violations |-> IF hit
                    THEN << [Rule |-> k, Violations |-> <<"pullreq">>, Bypassed |-> FALSE] >>
                    ELSE << >>,
     err |-> FALSE]

\* The violations are marked whenever the actor matches, asked or not.
BranchMergeVerify_MatchOnly(rule, vin, inner) ==
    [inner EXCEPT !.violations =
        [n \in DOMAIN @ |->
            [@[n] EXCEPT !.Bypassed = BypassMatches(rule.Bypass, vin.Actor, vin.IsRepoOwner)]]]

\* Branch.MergeVerify (lines 38-53); inner is what v.PullReq.MergeVerify
\* returned: on its error that is returned as it is.
BranchMergeVerify(rule, vin, inner) ==
    LET bypassed == vin.AllowBypass /\ BypassMatches(rule.Bypass, vin.Actor, vin.IsRepoOwner)
    IN  IF inner.err THEN inner
        ELSE [inner EXCEPT !.violations =
                [n \in DOMAIN @ |-> [@[n] EXCEPT !.Bypassed = bypassed]]]

\* The lifecycle policy is consulted for every ref.
BranchRefChangeVerify_NoGuard(rule, vin, inner) ==
    LET bypassed == vin.AllowBypass /\ BypassMatches(rule.Bypass, vin.Actor, vin.IsRepoOwner)
    IN  [violations |-> [n \in DOMAIN inner.violations |->
                            [inner.violations[n] EXCEPT !.Bypassed = bypassed]],
         err |-> inner.err, lifecycle |-> TRUE]

\* Branch.RefChangeVerify (lines 55-71); inner is what
\* v.Lifecycle.RefChangeVerify returns if it is called, lifecycle tells
\* whether it was.
BranchRefChangeVerify(rule, vin, inner) ==
    LET bypassed == vin.AllowBypass /\ BypassMatches(rule.Bypass, vin.Actor, vin.IsRepoOwner)
    IN  IF vin.RefType # "branch" \/ Len(vin.RefNames) = 0
        THEN [violations |-> << >>, err |-> FALSE, lifecycle |-> FALSE]
        ELSE [violations |-> [n \in DOMAIN inner.violations |->
                                [inner.violations[n] EXCEPT !.Bypassed = bypassed]],
              err |-> inner.err, lifecycle |-> TRUE]

\* ruleSet.MergeVerify: every rule is verified, the violations are
\* concatenated and the outputs are joined.
RECURSIVE RuleSetMergeVerify(_, _, _, _)
RuleSetMergeVerify(ruleSeq, vin, hits, k) ==
    IF k > Len(ruleSeq)
    THEN [out |-> [DeleteSourceBranch |-> FALSE], violations |-> << >>]
    ELSE LET one == BranchMergeVerify(ruleSeq[k], vin,
                                      PullReqMergeVerify(k, ruleSeq[k], hits[k]))
             rest == RuleSetMergeVerify(ruleSeq, vin, hits, k + 1)
         IN  [out |-> [DeleteSourceBranch |->
                          one.out.DeleteSourceBranch \/ rest.out.DeleteSourceBranch],
              violations |-> one.violations \o rest.violations]

\* RuleViolations.IsCritical and protection.IsCritical
IsCritical(violations) ==
    \E n \in DOMAIN violations :
        ~violations[n].Bypassed /\ Len(violations[n].Violations) > 0

\* ------------------------------------- protection.Branch: one verification
\* The principals, the bypass policies and the branch rules there are.
Principals == {SessionPrincipal(i) : i \in Invs}
BypassPolicies == [UserIDs : SUBSET Principals, RepoOwners : BOOLEAN]
BranchRules == [Bypass : BypassPolicies, DeleteBranch : BOOLEAN]

\* What the policy inside a rule (DefPullReq, DefLifecycle) may return: up to
\* MaxViolations entries, which know nothing of the rule's bypass policy, or
\* an error.
InnerViolations(kind) ==
    UNION {[1..m -> {[Rule |-> 1, Violations |-> <<kind>>, Bypassed |-> b] : b \in BOOLEAN}] :
           m \in 0..MaxViolations}

MergeVerifyInputs ==
    [Actor : Principals, AllowBypass : BOOLEAN, IsRepoOwner : BOOLEAN]

RefChangeVerifyInputs ==
    [Actor : Principals, AllowBypass : BOOLEAN, IsRepoOwner : BOOLEAN,
     RefType : {"branch", "tag"}, RefNames : {<< >>, <<"main">>}]

\* A call of Branch.MergeVerify.
MergeVerifyCall ==
    /\ rv = NoVerify
    /\ \E rule \in BranchRules, vin \in MergeVerifyInputs,
          v \in InnerViolations("pullreq"), failed \in BOOLEAN :
        LET inner == [out |-> [DeleteSourceBranch |-> rule.DeleteBranch],
                      violations |-> IF failed THEN << >> ELSE v,
                      err |-> failed]
        IN  rv' = [fn |-> "MergeVerify", rule |-> rule, in |-> vin, inner |-> inner,
                   out |-> BranchMergeVerify(rule, vin, inner)]
    /\ UNCHANGED <<mergeVars, cf, bl, ad>>

\* A call of Branch.RefChangeVerify.
RefChangeVerifyCall ==
    /\ rv = NoVerify
    /\ \E rule \in BranchRules, vin \in RefChangeVerifyInputs,
          v \in InnerViolations("lifecycle"), failed \in BOOLEAN :
        LET inner == [violations |-> v, err |-> failed]
        IN  rv' = [fn |-> "RefChangeVerify", rule |-> rule, in |-> vin, inner |-> inner,
                   out |-> BranchRefChangeVerify(rule, vin, inner)]
    /\ UNCHANGED <<mergeVars, cf, bl, ad>>

\* The caller has the result.
VerifyReturn ==
    /\ rv # NoVerify
    /\ rv' = NoVerify
    /\ UNCHANGED <<mergeVars, cf, bl, ad>>

VerifyNext == MergeVerifyCall \/ RefChangeVerifyCall \/ VerifyReturn

VerifySpec == QuietInit /\ [][VerifyNext]_vars

\* ------------------------------------------------- base64 and UTF-8 bytes
\* A string is the sequence of its characters, a []byte a sequence of numbers.
B64Chars ==
    << "A", "B", "C", "D", "E", "F", "G", "H", "I", "J", "K", "L", "M",
       "N", "O", "P", "Q", "R", "S", "T", "U", "V", "W", "X", "Y", "Z",
       "a", "b", "c", "d", "e", "f", "g", "h", "i", "j", "k", "l", "m",
       "n", "o", "p", "q", "r", "s", "t", "u", "v", "w", "x", "y", "z",
       "0", "1", "2", "3", "4", "5", "6", "7", "8", "9", "+", "/" >>

IsB64(c) == \E n \in DOMAIN B64Chars : B64Chars[n] = c

\* The six bits a character of the alphabet stands for.
B64Val(c) == (CHOOSE n \in DOMAIN B64Chars : B64Chars[n] = c) - 1

\* The byte of a character in a Go string (the characters used are ASCII).
ByteOf(c) ==
    IF ~IsB64(c) THEN (IF c = "=" THEN 61 ELSE 33)
    ELSE LET v == B64Val(c)
         IN  IF v < 26 THEN 65 + v
             ELSE IF v < 52 THEN 97 + (v - 26)
             ELSE IF v < 62 THEN 48 + (v - 52)
             ELSE IF v = 62 THEN 43 ELSE 47

\* []byte(s)
BytesOf(str) == [n \in DOMAIN str |-> ByteOf(str[n])]

\* The bytes of one group of four characters; last tells whether the group
\* ends the input, where alone padding may stand.  << -1 >> is corrupt input.
B64Quad(q, last) ==
    LET v(n) == B64Val(q[n]) IN
    IF IsB64(q[1]) /\ IsB64(q[2]) /\ IsB64(q[3]) /\ IsB64(q[4])
    THEN << v(1) * 4 + v(2) \div 16, (v(2) % 16) * 16 + v(3) \div 4, (v(3) % 4) * 64 + v(4) >>
    ELSE IF last /\ IsB64(q[1]) /\ IsB64(q[2]) /\ IsB64(q[3]) /\ q[4] = "="
    THEN << v(1) * 4 + v(2) \div 16, (v(2) % 16) * 16 + v(3) \div 4 >>
    ELSE IF last /\ IsB64(q[1]) /\ IsB64(q[2]) /\ q[3] = "=" /\ q[4] = "="
    THEN << v(1) * 4 + v(2) \div 16 >>
    ELSE << -1 >>

\* base64.StdEncoding.DecodeString: [ok, bytes]; padding is required.
RECURSIVE Base64Decode(_)
Base64Decode(str) ==
    IF str = << >> THEN [ok |-> TRUE, bytes |-> << >>]
    ELSE IF Len(str) < 4 THEN [ok |-> FALSE, bytes |-> << >>]
    ELSE LET head == B64Quad(SubSeq(str, 1, 4), Len(str) = 4)
             rest == Base64Decode(SubSeq(str, 5, Len(str)))
         IN  IF head = << -1 >> \/ ~rest.ok THEN [ok |-> FALSE, bytes |-> << >>]
             ELSE [ok |-> TRUE, bytes |-> head \o rest.bytes]

\* ------------------------------------------------------------- CommitFiles
\* An error CommitFiles returns: its message and the class it carries ("":
\* a plain Go error that carries none).
CommitErr(msg, class) == [kind |-> "error", msg |-> msg, class |-> class]

\* types.CommitFilesResponse
CommitResponse(id, violations) ==
    [kind |-> "response", CommitID |-> id, RuleViolations |-> violations]

\* The payloads a request may carry: well-formed base64 of one byte and of
\* four, and input base64 refuses: without padding, with a character outside
\* the alphabet, with padding before the end.
Payloads ==
    { <<"Q", "Q", "=", "=">>,
      <<"Q", "U", "J", "D", "Q", "Q", "=", "=">>,
      <<"Q", "Q">>,
      <<"Q", "!", "=", "=">>,
      <<"Q", "Q", "=", "=", "Q", "U", "J", "D">> }

\* enum.ContentEncodingType: base64, utf8, or not set.
Encodings == {"base64", "utf8", ""}

FileActions == [Encoding : Encodings, Payload : Payloads]

\* The payload is taken as it is whatever the encoding says.
DecodePayload_AsIs(action) == [ok |-> TRUE, bytes |-> BytesOf(action.Payload)]

\* Lines 91-102: the switch on action.Encoding.
DecodePayload(action) ==
    IF action.Encoding = "base64" THEN Base64Decode(action.Payload)
    ELSE [ok |-> TRUE, bytes |-> BytesOf(action.Payload)]

\* Lines 98, 92-96: a payload that does not decode is answered with a plain
\* wrapped error.
DecodeError == CommitErr("failed to decode base64 payload", "")

\* The author and the committer change places.
CommitFilesCall_Swapped(writeParams, opts, actions, principal) ==
    [op |-> "CommitFiles", WriteParams |-> writeParams,
     Branch |-> opts.Branch, NewBranch |-> opts.NewBranch, Actions |-> actions,
     Committer |-> principal, Author |-> SystemPrincipal]

\* Lines 119-130: the parameters of gitRPCClient.CommitFiles.
CommitFilesCall(writeParams, opts, actions, principal) ==
    [op |-> "CommitFiles", WriteParams |-> writeParams,
     Branch |-> opts.Branch, NewBranch |-> opts.NewBranch, Actions |-> actions,
     Committer |-> SystemPrincipal, Author |-> principal]

\* Rules are looked at for every request, new branch or not.
NeedsRuleCheck_Always(opts) == TRUE

\* Line 61: rules are looked at when no new branch is asked for.
NeedsRuleCheck(opts) == opts.NewBranch = << >>

\* Lines 56-61: look the repository up, check the push permission, see
\* whether a new branch is asked for.
CommitStart ==
    /\ cf = NoCommitFiles
    /\ \E principal \in Principals, access \in BOOLEAN,
          newBranch \in {<< >>, <<"new">>} :
        LET opts == [Branch |-> <<"main">>, NewBranch |-> newBranch, Actions |-> << >>]
            base == [pc |-> "return", principal |-> principal, in |-> opts,
                     calls |-> <<"RepoAccess">>, canPush |-> << >>,
                     violations |-> << >>,
                     actions |-> << >>, git |-> << >>, res |-> NoRes]
        IN  cf' = IF ~access
                  THEN [base EXCEPT !.res = CommitErr("access", "auth")]
                  ELSE [base EXCEPT !.pc = IF NeedsRuleCheck(opts) THEN "rules" ELSE "decode"]
    /\ UNCHANGED <<mergeVars, rv, bl, ad>>

\* A critical violation is no reason to stop.
AfterCanPush_IgnoreCritical(violations) == "decode"

\* Lines 83-85: a critical violation ends the request.
AfterCanPush(violations) == IF IsCritical(violations) THEN "blocked" ELSE "decode"

\* Lines 62-86: IsSpaceAdmin, the rules of the repository, CanPush for the
\* branch; failAt is the call that fails (0: none).  CanPush answers with
\* violations some of which may be bypassed.
CommitRules ==
    /\ cf.pc = "rules"
    /\ \E failAt \in 0..3, isSpaceOwner \in BOOLEAN, v \in InnerViolations("push") :
        LET calls == <<"IsSpaceAdmin", "RulesLoad", "CanPush">>
            msg == <<"space admin", "failed to fetch protection rules for the repository",
                     "failed to verify protection rules for git push">>
            input == [Actor |-> cf.principal, IsSpaceOwner |-> isSpaceOwner,
                      Repo |-> Repo(1), BranchNames |-> <<cf.in.Branch>>]
        IN  cf' = IF failAt # 0
                  THEN [cf EXCEPT !.pc = "return",
                                  !.calls = @ \o SubSeq(calls, 1, failAt),
                                  !.res = CommitErr(msg[failAt], "")]
                  ELSE IF AfterCanPush(v) = "blocked"
                  THEN [cf EXCEPT !.pc = "return",
                                  !.calls = @ \o calls,
                                  !.canPush = <<input>>,
                                  !.violations = v,
                                  !.res = CommitResponse(NoSHA, v)]
                  ELSE [cf EXCEPT !.pc = "decode",
                                  !.calls = @ \o calls,
                                  !.canPush = <<input>>,
                                  !.violations = v]
    /\ UNCHANGED <<mergeVars, rv, bl, ad>>

\* Lines 88-110, one turn of the loop: the next action of the request is
\* decoded, and a payload that does not decode ends the request; after the
\* last action the loop is left.
CommitDecode ==
    /\ cf.pc = "decode"
    /\ \/ /\ Len(cf.in.Actions) < MaxActions
          /\ \E action \in FileActions :
                LET raw == DecodePayload(action) IN
                cf' = IF raw.ok
                      THEN [cf EXCEPT !.in.Actions = Append(@, action),
                                      !.actions = Append(@, [Payload |-> raw.bytes])]
                      ELSE [cf EXCEPT !.in.Actions = Append(@, action),
                                      !.pc = "return",
                                      !.res = DecodeError]
       \/ cf' = [cf EXCEPT !.pc = "write"]
    /\ UNCHANGED <<mergeVars, rv, bl, ad>>

\* Lines 112-136: internal write parameters, then the git write.
CommitWrite ==
    /\ cf.pc = "write"
    /\ \E paramsOK \in BOOLEAN, gitOK \in BOOLEAN :
        LET writeParams == [Actor |-> cf.principal, RepoUID |-> Repo(1).GitUID,
                            EnvVars |-> [RepoID |-> 1, PrincipalID |-> cf.principal,
                                         Internal |-> TRUE]]
            call == CommitFilesCall(writeParams, cf.in, cf.actions, cf.principal)
        IN  cf' = IF ~paramsOK
                  THEN [cf EXCEPT !.pc = "return",
                                  !.calls = Append(@, "WriteParams"),
                                  !.res = CommitErr("failed to create RPC write params", "")]
                  ELSE [cf EXCEPT !.pc = "return",
                                  !.calls = @ \o <<"WriteParams", "CommitFiles">>,
                                  !.git = Append(@, call),
                                  !.res = IF gitOK
                                          THEN CommitResponse(<<"commit">>, << >>)
                                          ELSE CommitErr("git", "git")]
    /\ UNCHANGED <<mergeVars, rv, bl, ad>>

\* The function has returned.
CommitReturn ==
    /\ cf.pc = "return"
    /\ cf' = NoCommitFiles
    /\ UNCHANGED <<mergeVars, rv, bl, ad>>

CommitNext == CommitStart \/ CommitRules \/ CommitDecode \/ CommitWrite \/ CommitReturn

CommitSpec == QuietInit /\ [][CommitNext]_vars

\* -------------------------------------------------------------- BlameReader
\* The lines of a porcelain stream, as the scanner hands them out:
\*   head   "<sha> <orig> <final> [<count>]", matched by blamePorcelainHeadRE
\*   text   a tab and a line of the file (s: the line without the tab)
\*   meta   any other line: "summary ...", "filename ...", ...
\*   empty  the empty line, which is also the value of an unset lastLine
HeadLine(sha, count) == [t |-> "head", sha |-> sha, count |-> count]
TextLine(str) == [t |-> "text", s |-> str]
MetaLine(key, sha) == [t |-> "meta", key |-> key, v |-> <<key, sha>>]
EmptyLine == [t |-> "empty"]

BlameSHAs == {"aa", "bb"}

\* One line of the file in a well-formed stream: its header, the commit's
\* summary and file name where the stream names the commit for the first
\* time, and the line itself, number n of the range.
BlameGroup(n, sha, count, first) ==
    <<HeadLine(sha, count)>>
    \o (IF first THEN <<MetaLine("summary", sha), MetaLine("filename", sha)>>
        ELSE << >>)
    \o <<TextLine(<<"line", n>>)>>

\* The commit of the last header of a stream.
LastSHA(st) ==
    LET heads == {k \in DOMAIN st : st[k].t = "head"}
    IN  IF heads = {} THEN ""
        ELSE st[CHOOSE k \in heads : \A j \in heads : j <= k].sha

\* The header carries the count of lines where the commit changes.
RECURSIVE BlameStreams(_)
BlameStreams(n) ==
    IF n = 0 THEN {<< >>}
    ELSE {st \o BlameGroup(n, sha, IF LastSHA(st) = sha THEN 0 ELSE 1,
                           \A k \in DOMAIN st : st[k].t = "head" => st[k].sha # sha) :
            st \in BlameStreams(n - 1), sha \in BlameSHAs}

\* The well-formed streams of at most MaxBlameLines lines of a file.
WellFormedStreams == UNION {BlameStreams(n) : n \in 0..MaxBlameLines}

\* What git may have written to stderr: lines of pieces of text.
StderrOutputs ==
    { << >>,
      << <<"fatal: ", "no such path">> >>,
      << <<"fatal: ", "bad revision">> >>,
      << <<"fatal: ", "file f ", "has only 3 lines">> >>,
      << <<"fatal: ", "has only 3 lines", " of text">> >>,
      << <<"error: ", "boom">>, <<"fatal: ", "no such path">> >> }

\* What cmd.Run may return when git has not run to a good end: its exit
\* status, or the error of a cancelled context.  The empty string is nil.
RunErrors == {"exit status 128", "context canceled"}

\* What stderr holds when cmd.Run returns: git's message when git exited with
\* an error, nothing or a warning otherwise.
StderrOfRun(runErr) ==
    IF runErr = "exit status 128" THEN StderrOutputs
    ELSE {<< >>, << <<"warning: ", "ignored">> >>}

\* Close without the error: the reader sees the end of the stream.
PipeClose_Plain(runErr) == "EOF"

\* Lines 59-62: pipeWrite.CloseWithError(err); with nil the reader gets io.EOF.
PipeClose(runErr) == IF runErr = "" THEN "EOF" ELSE runErr

NoCommit == [SHA |-> ""]

\* All of stderr is searched, not its first line.
FirstLine_All(errRaw) ==
    LET RECURSIVE Flat(_)
        Flat(ls) == IF ls = << >> THEN << >> ELSE Head(ls) \o Flat(Tail(ls))
    IN  Flat(errRaw)

\* Lines 182-184: the first line of stderr.
FirstLine(errRaw) == errRaw[1]

\* Lines 178-200: the error made of what stderr holds.
ClassifyStderr(errRaw) ==
    LET first == FirstLine(errRaw)
        line == IF first[1] = "fatal: " THEN Tail(first) ELSE first
    IN  IF "no such path" \in {line[n] : n \in DOMAIN line} THEN "NotFound"
        ELSE IF "bad revision" \in {line[n] : n \in DOMAIN line} THEN "NotFound"
        ELSE IF line # << >> /\ line[Len(line)] = "has only 3 lines" THEN "InvalidArgument"
        ELSE "Unknown"

\* The scanner's lines up to the first one that is not empty are passed over.
RECURSIVE SkipEmpty(_)
SkipEmpty(lines) ==
    IF lines # << >> /\ Head(lines) = EmptyLine THEN SkipEmpty(Tail(lines)) ELSE lines

\* parseBlameHeaders: the summary is the commit's title, other headers here
\* are not looked at.
ParseBlameHeaders(line, commit) ==
    IF line.key = "summary" THEN [commit EXCEPT !.Title = line.v] ELSE commit

\* Every header after the first ends the part.
EndsPart_Always(line, commit) == TRUE

\* Line 148: a header of another commit ends the part.
EndsPart(line, commit) == line.sha # commit.SHA

\* The header that ended the part is forgotten.
UnreadLine_Drop(line) == EmptyLine

\* unreadLine (lines 113-115, 149): the value lastLine gets.
UnreadLine(line) == line

\* Lines 35-78: Blame starts the goroutine that runs git and returns a
\* reader; the stream is what git is going to write to the pipe.
BlameStart ==
    /\ bl = NoBlame
    /\ \E stream \in WellFormedStreams :
        bl' = [pc |-> "ready", stream |-> stream, git |-> stream,
               stdout |-> << >>, exit |-> "running", pipe |-> "open", stderrOut |-> << >>, stderr |-> << >>,
               lastLine |-> EmptyLine,
               commitCache |-> [sha \in BlameSHAs |-> NoCommit],
               commit |-> NoCommit, lines |-> << >>, err |-> "",
               parts |-> << >>, ret |-> "", scanErr |-> "", ended |-> FALSE]
    /\ UNCHANGED <<mergeVars, rv, cf, ad>>

\* The block in hand is kept in the reader from one call to the next.
NextPartLocals_Kept(reader) == [commit |-> reader.commit, lines |-> reader.lines]

\* Lines 118-119: commit and lines are variables of the call, nil at its start.
NextPartLocals(reader) == [commit |-> NoCommit, lines |-> << >>]

\* Lines 117-121: NextPart is called.
NextPartCall ==
    /\ bl.pc = "ready"
    /\ bl' = [bl EXCEPT !.pc = "loop", !.commit = NextPartLocals(bl).commit,
                        !.lines = NextPartLocals(bl).lines,
                        !.err = "", !.ret = ""]
    /\ UNCHANGED <<mergeVars, rv, cf, ad>>

\* Lines 65-70: git writes the next line of its output to the pipe.
GitWrite ==
    /\ bl # NoBlame /\ bl.exit = "running" /\ bl.git # << >>
    /\ bl' = [bl EXCEPT !.stdout = Append(@, Head(bl.git)), !.git = Tail(@)]
    /\ UNCHANGED <<mergeVars, rv, cf, ad>>

\* Lines 59-70: cmd.Run returns, with nil after git has written all its
\* output or with an error at any point (git could not start, exited with an
\* error, or the context was cancelled), stderr holding what git wrote to
\* it; the deferred function closes the pipe.
GitExit ==
    /\ bl # NoBlame /\ bl.exit = "running"
    /\ \E runErr \in RunErrors \cup {""} : \E stderr \in StderrOfRun(runErr) :
        /\ runErr = "" => bl.git = << >>
        /\ bl' = [bl EXCEPT !.exit = IF runErr = "" THEN "ok" ELSE runErr,
                            !.pipe = PipeClose(runErr),
                            !.stderrOut = stderr, !.stderr = stderr]
    /\ UNCHANGED <<mergeVars, rv, cf, ad>>

\* Lines 123-175, one turn of the loop.  nextLine hands out the line pushed
\* back or the next line of the pipe that is not empty; without one it waits
\* until the pipe is closed and returns what the pipe was closed with.
NextPartLine ==
    /\ bl.pc = "loop" /\ bl.scanErr = ""
    /\ LET rest == SkipEmpty(bl.stdout)
           pushed == bl.lastLine # EmptyLine
           line == IF pushed THEN bl.lastLine ELSE Head(rest)
           read == [bl EXCEPT !.lastLine = EmptyLine,
                              !.stdout = IF pushed THEN @ ELSE Tail(rest)]
       IN  \/ /\ pushed \/ rest # << >>
              /\ bl' =
                  IF line.t = "head"
                  THEN IF bl.commit = NoCommit
                       THEN [read EXCEPT !.commit =
                                IF bl.commitCache[line.sha] # NoCommit
                                THEN bl.commitCache[line.sha]
                                ELSE [SHA |-> line.sha, Title |-> << >>],
                                         !.lines = << >>]
                       ELSE IF EndsPart(line, bl.commit)
                       THEN [read EXCEPT !.lastLine = UnreadLine(line),
                                         !.commitCache[bl.commit.SHA] = bl.commit,
                                         !.parts = Append(@, [Commit |-> bl.commit,
                                                              Lines |-> bl.lines]),
                                         !.pc = "ready", !.ret = "part"]
                       ELSE read
                  ELSE IF bl.commit = NoCommit THEN read
                  ELSE IF line.t = "text" THEN [read EXCEPT !.lines = Append(@, line.s)]
                  ELSE [read EXCEPT !.commit = ParseBlameHeaders(line, @)]
           \/ /\ ~pushed /\ rest = << >> /\ bl.pipe # "open"
              /\ bl' = [bl EXCEPT !.pc = "tail", !.stdout = << >>, !.err = bl.pipe]
    /\ UNCHANGED <<mergeVars, rv, cf, ad>>

\* bufio.ErrTooLong: a line does not fit the buffer of the scanner.
ErrTooLong == "bufio.Scanner: token too long"

\* Lines 99-107 for a stream with a line longer than the scanner's buffer
\* (bufio.MaxScanTokenSize): Scan returns false at that line, which may be
\* any content line, and scanner.Err() is ErrTooLong, in this call and in
\* every later one, while the pipe is open and git goes on.
NextPartScanError ==
    /\ bl.pc = "loop"
    /\ \/ /\ bl.scanErr = "" /\ bl.lastLine = EmptyLine
          /\ SkipEmpty(bl.stdout) # << >> /\ Head(SkipEmpty(bl.stdout)).t = "text"
          /\ bl' = [bl EXCEPT !.pc = "tail", !.err = ErrTooLong, !.scanErr = ErrTooLong]
       \/ /\ bl.scanErr # ""
          /\ bl' = [bl EXCEPT !.pc = "tail", !.err = bl.scanErr]
    /\ UNCHANGED <<mergeVars, rv, cf, ad>>

\* What io.ReadAll gets from the bytes.Buffer while the goroutine that copies
\* git's stderr may be writing to it: nothing, or a piece of a message.
RacyStderr == { << >>, << <<"fatal: ">> >>, << <<"fatal: ", "no such path">> >> }

\* Line 178: what NextPart reads from the stderr buffer.  After cmd.Run has
\* returned it is what the buffer holds; before, the read races with the
\* writes and its result is any of the above.
ReadStderr == IF bl.exit = "running" THEN RacyStderr ELSE {bl.stderr}

\* Lines 176-216: after the loop.
NextPartEnd ==
    /\ bl.pc = "tail"
    /\ \E errRaw \in ReadStderr :
        bl' = IF errRaw # << >>
              THEN [bl EXCEPT !.pc = "ready", !.ret = ClassifyStderr(errRaw),
                              !.stderr = << >>]
              ELSE IF bl.err # "EOF"
              THEN [bl EXCEPT !.pc = "ready", !.ret = "Internal"]
              ELSE IF bl.commit # NoCommit /\ Len(bl.lines) > 0
              THEN [bl EXCEPT !.pc = "ready", !.ret = "EOF", !.ended = TRUE,
                              !.parts = Append(@, [Commit |-> bl.commit,
                                                   Lines |-> bl.lines])]
              ELSE [bl EXCEPT !.pc = "ready", !.ret = "EOF", !.ended = TRUE]
    /\ UNCHANGED <<mergeVars, rv, cf, ad>>

BlameNext ==
    BlameStart \/ GitWrite \/ GitExit \/ NextPartCall \/ NextPartLine \/ NextPartEnd

BlameSpec == QuietInit /\ [][BlameNext]_vars

\* The reader on any stream, lines that do not fit the scanner's buffer
\* included.
BlameScanSpec == QuietInit /\ [][BlameNext \/ NextPartScanError]_vars

\* git ends, and the caller of NextPart goes on calling it.
BlameFairSpec ==
    /\ BlameSpec
    /\ WF_vars(GitWrite \/ GitExit)
    /\ WF_vars(NextPartCall \/ NextPartLine \/ NextPartEnd)

\* ------------------------------------------------------------ extractEmail
\* Strings are sequences of characters.
EmailChars == {"<", ">", "a", "@"}

RECURSIVE StringsUpTo(_, _)
StringsUpTo(chars, n) ==
    IF n = 0 THEN {<< >>}
    ELSE LET shorter == StringsUpTo(chars, n - 1)
         IN  shorter \cup {Append(str, c) : str \in shorter, c \in chars}

\* A leading "<" and a trailing ">" are cut off, each on its own.
ExtractEmail_Trim(str) ==
    LET a == IF str # << >> /\ Head(str) = "<" THEN Tail(str) ELSE str
    IN  IF a # << >> /\ a[Len(a)] = ">" THEN SubSeq(a, 1, Len(a) - 1) ELSE a

\* Lines 256-261.
ExtractEmail(str) ==
    IF Len(str) >= 2 /\ str[1] = "<" /\ str[Len(str)] = ">"
    THEN SubSeq(str, 2, Len(str) - 1)
    ELSE str

\* parseBlameHeaders (lines 219-247) calls extractEmail on the value of an
\* author-mail or committer-mail header.
ExtractEmailCall ==
    /\ ad = NoAdapterCall
    /\ \E str \in StringsUpTo(EmailChars, MaxEmailLen) :
        ad' = [fn |-> "extractEmail", pc |-> "done",
               s |-> str, out |-> ExtractEmail(str)]
    /\ UNCHANGED <<mergeVars, rv, cf, bl>>

\* The call of the adapter has returned.
AdapterReturn ==
    /\ ad.pc = "done"
    /\ ad' = NoAdapterCall
    /\ UNCHANGED <<mergeVars, rv, cf, bl>>

EmailNext == ExtractEmailCall \/ AdapterReturn

EmailSpec == QuietInit /\ [][EmailNext]_vars

\* ---------------------------------------------------- GetCommitDivergences
Tab == "\t"
Newline == "\n"
Digits == <<"0", "1", "2", "3", "4", "5", "6", "7", "8", "9">>
\* The largest value of the 32 bits ParseInt is asked for (lines 410, 415).
MaxInt32 == 2147483647

\* The decimal digits of a natural number, as git prints a count.
RECURSIVE FormatInt(_)
FormatInt(n) ==
    IF n < 10 THEN <<Digits[n + 1]>> ELSE Append(FormatInt(n \div 10), Digits[(n % 10) + 1])

\* strings.Cut(s, "\t"): what is before and after the first tab.
Cut(str) ==
    LET tabs == {k \in DOMAIN str : str[k] = Tab}
    IN  IF tabs = {} THEN [before |-> str, after |-> << >>, found |-> FALSE]
        ELSE LET k == CHOOSE t \in tabs : \A u \in tabs : t <= u
             IN  [before |-> SubSeq(str, 1, k - 1),
                  after |-> SubSeq(str, k + 1, Len(str)), found |-> TRUE]

\* strings.TrimRight(s, cutset)
RECURSIVE TrimRight(_, _)
TrimRight(str, cutset) ==
    IF str # << >> /\ str[Len(str)] \in cutset
    THEN TrimRight(SubSeq(str, 1, Len(str) - 1), cutset)
    ELSE str

\* The value of a string of digits.
RECURSIVE DigitsValue(_)
DigitsValue(str) ==
    IF str = << >> THEN 0
    ELSE 10 * DigitsValue(SubSeq(str, 1, Len(str) - 1))
         + (CHOOSE d \in 0..9 : Digits[d + 1] = str[Len(str)])

\* strconv.ParseInt(s, 10, 32): an optional sign, then digits only, at least
\* one, the value within 32 bits.
ParseInt(str) ==
    LET signed == str # << >> /\ str[1] \in {"+", "-"}
        body == IF signed THEN Tail(str) ELSE str
        isNum == body # << >> /\ \A k \in DOMAIN body : \E d \in 1..10 : Digits[d] = body[k]
        v == IF isNum THEN DigitsValue(body) ELSE 0
        sv == IF signed /\ str[1] = "-" THEN 0 - v ELSE v
    IN  IF isNum /\ sv <= MaxInt32 /\ sv >= 0 - MaxInt32 - 1
        THEN [ok |-> TRUE, v |-> sv] ELSE [ok |-> FALSE, v |-> 0]

\* A result of getCommitDivergence.
Divergence(ahead, behind) == [err |-> "", Ahead |-> ahead, Behind |-> behind]
DivergenceErr(err) == [err |-> err, Ahead |-> 0, Behind |-> 0]

\* An output without a tab counts as no divergence.
ParseRevListOutput_Lenient(stdOut) ==
    LET c == Cut(stdOut)
        left == ParseInt(TrimRight(c.before, {" ", Tab}))
        right == ParseInt(TrimRight(c.after, {" ", Tab, Newline}))
    IN  IF ~c.found THEN Divergence(0, 0)
        ELSE IF ~left.ok THEN DivergenceErr("failed to parse git rev-list output for ahead")
        ELSE IF ~right.ok THEN DivergenceErr("failed to parse git rev-list output for behind")
        ELSE Divergence(left.v, right.v)

\* Lines 400-424: the output of rev-list is cut at the tab, trimmed and
\* parsed; the errors are plain errors, of no class.
ParseRevListOutput(stdOut) ==
    LET c == Cut(stdOut)
        left == ParseInt(TrimRight(c.before, {" ", Tab}))
        right == ParseInt(TrimRight(c.after, {" ", Tab, Newline}))
    IN  IF ~c.found THEN DivergenceErr("git rev-list returned unexpected output")
        ELSE IF ~left.ok THEN DivergenceErr("failed to parse git rev-list output for ahead")
        ELSE IF ~right.ok THEN DivergenceErr("failed to parse git rev-list output for behind")
        ELSE Divergence(left.v, right.v)

\* No cap is passed to git.
RevListCap_None(max) == 0

\* Lines 379-383: --max-count is passed when max is positive; 0 is no cap.
RevListCap(max) == IF max > 0 THEN max ELSE 0

\* The commits on each side of a pair of refs, and the values of max.
SideCounts == {0, 2, 11}
MaxCounts == {-1, 0, 2, 12}

\* git rev-list --count --left-right [--max-count cap] from...to for a pair
\* with ahead commits on the left and behind on the right: it counts all of
\* them, or the first cap it walks, on whatever side they are.
RevListCounts(ahead, behind, cap) ==
    IF cap = 0 \/ ahead + behind <= cap THEN {<<ahead, behind>>}
    ELSE {<<l, cap - l>> : l \in {x \in 0..ahead : cap - x >= 0 /\ cap - x <= behind}}

RevListOutput(l, r) == FormatInt(l) \o <<Tab>> \o FormatInt(r) \o <<Newline>>

\* Outputs git does not make: no tab, a side that is not a number.
MalformedOutputs ==
    { << >>, <<"1", "2", Newline>>, <<"x", Tab, "2", Newline>>, <<"1", Tab, Newline>> }

\* What the rev-list of one request comes to: the refs are not found, git
\* fails otherwise, or it prints counts, well or badly.
RevListOutcomes(max) ==
    {[kind |-> k, ahead |-> 0, behind |-> 0, l |-> 0, r |-> 0, out |-> << >>] :
        k \in {"notfound", "failed"}}
    \cup {[kind |-> "malformed", ahead |-> 0, behind |-> 0, l |-> 0, r |-> 0, out |-> o] :
            o \in MalformedOutputs}
    \cup UNION {{[kind |-> "counts", ahead |-> a, behind |-> b, l |-> c[1], r |-> c[2],
                  out |-> RevListOutput(c[1], c[2])] :
                    c \in RevListCounts(a, b, RevListCap(max))} :
                a \in SideCounts, b \in SideCounts}

\* Lines 391-397: git failed; processGiteaErrorf makes types.ErrNotFound of
\* a ref that is not found.
GetCommitDivergence(git) ==
    IF git.kind = "notfound" THEN DivergenceErr("ErrNotFound")
    ELSE IF git.kind = "failed" THEN DivergenceErr("git rev-list failed")
    ELSE ParseRevListOutput(git.out)

\* A zero divergence stands for a pair that is not found.
NotFoundSentinel_Zero == [Ahead |-> 0, Behind |-> 0]

\* Line 359.
NotFoundSentinel == [Ahead |-> 0 - 1, Behind |-> 0 - 1]

\* Lines 352-355: the call, with its requests and max.
DivergencesCall ==
    /\ ad = NoAdapterCall
    /\ \E n \in 0..MaxRequests, max \in MaxCounts :
        ad' = [fn |-> "GetCommitDivergences", pc |-> "loop", n |-> n, max |-> max,
               i |-> 1, git |-> << >>, res |-> [k \in 1..n |-> [Ahead |-> 0, Behind |-> 0]],
               ret |-> << >>, err |-> ""]
    /\ UNCHANGED <<mergeVars, rv, cf, bl>>

\* Lines 356-367: one turn of the loop, or its end.
DivergencesStep ==
    /\ ad.fn = "GetCommitDivergences" /\ ad.pc = "loop"
    /\ IF ad.i > ad.n
       THEN ad' = [ad EXCEPT !.pc = "done", !.ret = <<ad.res>>]
       ELSE \E git \in RevListOutcomes(ad.max) :
            LET d == GetCommitDivergence(git)
                called == [ad EXCEPT !.git = Append(@, git)]
            IN  ad' = IF d.err = "ErrNotFound"
                      THEN [called EXCEPT !.res[ad.i] = NotFoundSentinel, !.i = @ + 1]
                      ELSE IF d.err # ""
                      THEN [called EXCEPT !.pc = "done", !.err = d.err,
                                          !.res[ad.i] = [Ahead |-> d.Ahead, Behind |-> d.Behind]]
                      ELSE [called EXCEPT !.res[ad.i] = [Ahead |-> d.Ahead, Behind |-> d.Behind],
                                          !.i = @ + 1]
    /\ UNCHANGED <<mergeVars, rv, cf, bl>>

DivergenceNext == DivergencesCall \/ DivergencesStep \/ AdapterReturn

DivergenceSpec == QuietInit /\ [][DivergenceNext]_vars

\* -------------------------------------------------------------- ListCommits
\* File paths, and the lines git log --name-status prints for a commit: the
\* status, a tab and the path, or for a rename the status with its score, the
\* old path and the new one.
PathA == <<"a">>
PathBA == <<"b", "a">>
PathC == <<"c">>
FilePaths == {PathA, PathBA, PathC}
NoPath == << >>

ModifyLine(path) == <<"M", Tab>> \o path
RenameLine(old, new) == <<"R", "1", "0", "0", Tab>> \o old \o <<Tab>> \o new

ChangeLines ==
    {ModifyLine(path) : path \in FilePaths}
    \cup {RenameLine(PathA, PathC), RenameLine(PathC, PathA)}

\* strings.Split(s, "\t")
RECURSIVE SplitTab(_)
SplitTab(str) ==
    LET c == Cut(str)
    IN  IF c.found THEN <<c.before>> \o SplitTab(c.after) ELSE <<str>>

\* The paths a line names.
PathsOf(line) == {SplitTab(line)[k] : k \in 2..Len(SplitTab(line))}

\* What git log prints for one commit: nothing, or up to two lines, no path
\* being named by both.
LogOutputs ==
    {<< >>} \cup {<<l>> : l \in ChangeLines}
    \cup {p \in {<<l, k>> : l \in ChangeLines, k \in ChangeLines} :
            PathsOf(p[1]) \cap PathsOf(p[2]) = {}}

\* strings.Contains
Contains(str, sub) ==
    \E k \in 0..(Len(str) - Len(sub)) : SubSeq(str, k + 1, k + Len(sub)) = sub

NoRename == [OldPath |-> NoPath, NewPath |-> NoPath,
             CommitSHABefore |-> NoSHA, CommitSHAAfter |-> NoSHA]

\* Lines 286-298: the first line that contains the path decides.
GetFileChangeTypeFromLog(changeStrings, filePath) ==
    LET hits == {k \in DOMAIN changeStrings : Contains(changeStrings[k], filePath)}
    IN  IF hits = {} THEN [err |-> "could not parse change for the file"]
        ELSE LET changeInfo == SplitTab(changeStrings[CHOOSE k \in hits : \A j \in hits : k <= j])
             IN  IF Len(changeInfo) # 3
                 THEN [err |-> "", changeType |-> changeInfo[1], paths |-> << >>]
                 ELSE [err |-> "", changeType |-> changeInfo[1],
                       paths |-> <<changeInfo[2], changeInfo[3]>>]

\* Lines 263-284: git log of one commit, failed or with its lines.
GiteaGetRenameDetails(lg, path) ==
    IF lg.failed THEN [err |-> "failed to trigger log command", details |-> NoRename]
    ELSE LET c == GetFileChangeTypeFromLog(lg.lines, path)
         IN  IF c.err # "" THEN [err |-> c.err, details |-> NoRename]
             ELSE IF c.changeType # << >> /\ Head(c.changeType) = "R"
             THEN IF c.paths = << >>
                  THEN [err |-> "nil pointer dereference", details |-> NoRename]
                  ELSE [err |-> "", details |-> [NoRename EXCEPT !.OldPath = c.paths[1],
                                                                 !.NewPath = c.paths[2]]]
             ELSE [err |-> "", details |-> NoRename]

\* The outcomes of one git log call.
LogOutcomes ==
    {[failed |-> TRUE, lines |-> << >>]} \cup {[failed |-> FALSE, lines |-> o] : o \in LogOutputs}

\* Lines 210-226.
CleanupCommitsForRename(page, renameDetails, path) ==
    IF Len(page) = 0 THEN page
    ELSE IF \E k \in DOMAIN renameDetails :
                /\ page[1] = renameDetails[k].CommitSHABefore
                /\ path = renameDetails[k].OldPath
    THEN Tail(page)
    ELSE page

\* The last commit is looked at whatever the length of the page.
NeedsLast_Always(page) == TRUE

\* Lines 245-247: a page of one commit has no last commit to look at.
NeedsLast(page) == Len(page) # 1

\* Lines 166-203: the page is listed; without a path filter that is all.
ListCommitsCall ==
    /\ ad = NoAdapterCall
    /\ \E path \in {NoPath, PathA, PathC}, n \in 0..MaxPage, ok \in BOOLEAN :
        LET call == [fn |-> "ListCommits", pc |-> "first", path |-> path,
                     commits |-> [k \in 1..n |-> <<"commit", k>>],
                     calls |-> << >>, logs |-> << >>, renames |-> << >>,
                     out |-> << >>, err |-> ""]
        IN  ad' = IF ~ok THEN [call EXCEPT !.pc = "done", !.commits = << >>,
                                           !.err = "failed to list commits"]
                  ELSE IF Len(path) = 0
                  THEN [call EXCEPT !.pc = "done", !.out = <<call.commits>>]
                  ELSE call
    /\ UNCHANGED <<mergeVars, rv, cf, bl>>

\* Lines 228-247: getRenameDetails looks at the first commit of the page.
RenameFirst ==
    /\ ad.fn = "ListCommits" /\ ad.pc = "first"
    /\ IF Len(ad.commits) = 0
       THEN ad' = [ad EXCEPT !.pc = "cleanup"]
       ELSE \E lg \in LogOutcomes :
            LET r == GiteaGetRenameDetails(lg, ad.path)
                called == [ad EXCEPT !.calls = Append(@, ad.commits[1]),
                                     !.logs = Append(@, lg)]
                found == r.details.NewPath # NoPath \/ r.details.OldPath # NoPath
                listed == IF found
                          THEN [called EXCEPT !.renames = Append(@,
                                   [r.details EXCEPT !.CommitSHABefore = ad.commits[1]])]
                          ELSE called
            IN  ad' = IF r.err # "" THEN [called EXCEPT !.pc = "done", !.err = r.err]
                      ELSE IF NeedsLast(ad.commits) THEN [listed EXCEPT !.pc = "last"]
                      ELSE [listed EXCEPT !.pc = "cleanup"]
    /\ UNCHANGED <<mergeVars, rv, cf, bl>>

\* Lines 249-259: getRenameDetails looks at the last commit of the page.
RenameLast ==
    /\ ad.fn = "ListCommits" /\ ad.pc = "last"
    /\ \E lg \in LogOutcomes :
        LET last == ad.commits[Len(ad.commits)]
            r == GiteaGetRenameDetails(lg, ad.path)
            called == [ad EXCEPT !.calls = Append(@, last), !.logs = Append(@, lg)]
            found == r.details.NewPath # NoPath \/ r.details.OldPath # NoPath
        IN  ad' = IF r.err # "" THEN [called EXCEPT !.pc = "done", !.err = r.err]
                  ELSE IF found
                  THEN [called EXCEPT !.pc = "cleanup", !.renames = Append(@,
                           [r.details EXCEPT !.CommitSHAAfter = last])]
                  ELSE [called EXCEPT !.pc = "cleanup"]
    /\ UNCHANGED <<mergeVars, rv, cf, bl>>

\* Lines 201-202: the page is cleaned up and returned with the records.
ListCommitsCleanup ==
    /\ ad.fn = "ListCommits" /\ ad.pc = "cleanup"
    /\ ad' = [ad EXCEPT !.pc = "done",
                        !.out = <<CleanupCommitsForRename(ad.commits, ad.renames, ad.path)>>]
    /\ UNCHANGED <<mergeVars, rv, cf, bl>>

ListCommitsNext ==
    ListCommitsCall \/ RenameFirst \/ RenameLast \/ ListCommitsCleanup \/ AdapterReturn

ListCommitsSpec == QuietInit /\ [][ListCommitsNext]_vars

\* ----------------------------------------------------- Merge: verification
\* createRPCWriteParams with isInternal = true.
CreateRPCInternalWriteParams(principal, repo) ==
    [Actor |-> principal, RepoUID |-> repo.GitUID,
     EnvVars |-> [RepoID |-> repo.ID, PrincipalID |-> principal, Internal |-> TRUE]]

\* Lines 108-166: the error Merge returns when one of these calls fails.
VerifyError ==
    [ReviewerList |-> "failed to load list of reviwers",
     TargetWriteParams |-> "failed to create RPC write params",
     SourceWriteParams |-> "failed to create RPC write params",
     SourceRepoFind |-> "failed to get source repository",
     IsRepoOwner |-> "failed to determine if user is repo owner",
     CheckList |-> "failed to list status checks",
     RulesLoad |-> "failed to fetch protection rules for the repository",
     CodeOwners |-> "CODEOWNERS evaluation failed",
     MergeVerify |-> "failed to verify protection rules"]

\* Lines 108-166: the calls made before the violations are looked at, in order.
VerifyCalls(fork) ==
    <<"ReviewerList", "TargetWriteParams">>
    \o (IF fork THEN <<"SourceWriteParams", "SourceRepoFind">> ELSE << >>)
    \o <<"IsRepoOwner", "CheckList", "RulesLoad", "CodeOwners", "MergeVerify">>

\* Lines 113-130: the write parameters and the source repository.
WriteParams(i, row) ==
    LET target == CreateRPCInternalWriteParams(SessionPrincipal(i), targetRepo[i])
        fork == row.SourceRepoID # row.TargetRepoID
    IN  [target |-> target,
         \* line 121 runs while sourceRepo still holds targetRepo (line 118)
         source |-> IF fork
                    THEN CreateRPCInternalWriteParams(SessionPrincipal(i), targetRepo[i])
                    ELSE target,
         sourceRepo |-> IF fork THEN Repo(row.SourceRepoID) ELSE targetRepo[i]]

\* Critical violations are returned to nobody: the merge goes on.
AfterVerify_IgnoreCritical(input, violations) ==
    IF input.DryRun THEN "dryrun" ELSE "merge"

\* Any violation stops the merge, bypassed or not.
AfterVerify_BlockOnAny(input, violations) ==
    IF violations # << >> THEN "blocked"
    ELSE IF input.DryRun THEN "dryrun"
    ELSE "merge"

\* Lines 168-172: a critical violation stops the merge; otherwise a dry run
\* and a real merge part ways.
AfterVerify(input, violations) ==
    IF IsCritical(violations) THEN "blocked"
    ELSE IF input.DryRun THEN "dryrun"
    ELSE "merge"

\* Lines 108-170: load what the rules need, verify them, stop on a critical
\* violation.  failAt is the call that returns an error (0: none does); a
\* missing CODEOWNERS file is no error.
Verify(i) ==
    /\ pc[i] = "verify"
    /\ LET fork == pr[i].SourceRepoID # pr[i].TargetRepoID
           calls == VerifyCalls(fork)
           ruleSeq == RepoRules(targetRepo[i].ID)
       IN  \E failAt \in 0..Len(calls), isRepoOwner \in BOOLEAN,
              hits \in [DOMAIN ruleSeq -> BOOLEAN] :
            IF failAt # 0
            THEN /\ Return(i, Err(VerifyError[calls[failAt]]), SubSeq(calls, 1, failAt))
                 /\ UNCHANGED <<in, wp, rules>>
            ELSE \E bypassRules \in BOOLEAN, dryRun \in BOOLEAN :
                 LET input == [Method |-> in[i].Method, RepoRef |-> in[i].RepoRef,
                               PullreqNum |-> in[i].PullreqNum,
                               SourceSHA |-> in[i].SourceSHA,
                               BypassRules |-> bypassRules, DryRun |-> dryRun]
                     vin == [Actor |-> SessionPrincipal(i),
                             AllowBypass |-> input.BypassRules,
                             IsRepoOwner |-> isRepoOwner]
                     v == RuleSetMergeVerify(ruleSeq, vin, hits, 1)
                 IN  /\ in' = [in EXCEPT ![i] = input]
                     /\ wp' = [wp EXCEPT ![i] = WriteParams(i, pr[i])]
                     /\ rules' = [rules EXCEPT ![i] = v]
                     /\ IF AfterVerify(input, v.violations) = "blocked"
                        THEN Return(i, Violations(NoFiles, v.violations), calls)
                        ELSE Goto(i, AfterVerify(input, v.violations), calls)
    /\ UNCHANGED <<targetRepo, pr, mo>>
    /\ UNCHANGED shared

\* ------------------------------------------------------------ git adapter
\* A call of the git RPC client, with the parameters Merge passes.
MergeCall(params, row, i, refName, title, method) ==
    [op |-> "Merge", WriteParams |-> params, BaseBranch |-> row.TargetBranch,
     HeadRepoUID |-> wp[i].sourceRepo.GitUID, HeadBranch |-> row.SourceBranch,
     Title |-> title,
     Committer |-> IF refName = << >> THEN << >> ELSE SystemPrincipal,
     Author |-> IF refName = << >> THEN << >> ELSE SessionPrincipal(i),
     RefName |-> refName, HeadExpectedSHA |-> in[i].SourceSHA, Method |-> method]

DeleteBranchCall(params, row) ==
    [op |-> "DeleteBranch", WriteParams |-> params, BranchName |-> row.SourceBranch]

\* The head of the branch, NoSHA when the branch does not exist.
HeadOf(repoUID, branch) ==
    IF <<repoUID, branch>> \in branches THEN <<"src", 1>> ELSE NoSHA

\* What gitrpc Merge may answer: a head that is not the expected one is an
\* error; otherwise the merge succeeds, finds conflicts or fails.
MergeOutcomes(call) ==
    IF HeadOf(call.HeadRepoUID, call.HeadBranch) # call.HeadExpectedSHA
    THEN {"error"}
    ELSE {"ok", "notmergeable", "error"}

\* gitrpc Merge creates the merge commit and, when a ref is named, moves it.
RefsAfterMerge(call, o, repo, sha) ==
    IF o = "ok" /\ call.RefName # << >> THEN [refs EXCEPT ![repo] = sha] ELSE refs

CommitsAfterMerge(call, o, key, sha) ==
    IF o = "ok" /\ call.RefName # << >>
    THEN commits \cup {[PR |-> key, SHA |-> sha]}
    ELSE commits

\* ------------------------------------------------------- Merge: dry run
\* The probe is given the target branch as the ref to write.
ProbeRefName_Target(row) == row.TargetBranch

\* Lines 188-194: the probe names no ref to write.
ProbeRefName(row) == << >>

\* The probe is made unless the merge check found the pull request mergeable.
NeedsProbe_UnlessMergeable(row) == row.MergeCheckStatus # Mergeable

\* Line 187: the probe is made when the merge check has not run yet.
NeedsProbe(row) == row.MergeCheckStatus = Unchecked

\* Lines 172-203: the dry run answers with the stored conflicts, or, when the
\* merge check has not run, with those of a probe that writes no ref.
DryRun(i) ==
    /\ pc[i] = "dryrun"
    /\ LET out == Response(TRUE, NoSHA, rules[i].out.DeleteSourceBranch,
                           pr[i].MergeConflicts, rules[i].violations)
           call == MergeCall(wp[i].target, pr[i], i, ProbeRefName(pr[i]), << >>, "")
           repo == targetRepo[i].ID
       IN  IF NeedsProbe(pr[i])
           THEN /\ gitCalls' = [gitCalls EXCEPT ![i] = Append(@, call)]
                /\ \E o \in MergeOutcomes(call) :
                    /\ refs' = RefsAfterMerge(call, o, repo, <<"merge", i>>)
                    /\ commits' = CommitsAfterMerge(call, o, pr[i].ID, <<"merge", i>>)
                    /\ CASE o = "notmergeable" ->
                             Return(i, [out EXCEPT !.ConflictFiles = ConflictFiles],
                                    <<"MergeProbe">>)
                        [] o = "error" ->
                             Return(i, Err(ErrMergeCheck), <<"MergeProbe">>)
                        [] OTHER -> Return(i, out, <<"MergeProbe">>)
           ELSE /\ Return(i, out, << >>)
                /\ UNCHANGED <<gitCalls, refs, commits>>
    /\ UNCHANGED locals
    /\ UNCHANGED <<mutex, prRows, branches, events, activities>>

\* ----------------------------------------------------------- Merge: merge
\* Lines 206-211
MergeTitle(method, row, sourceRepo) ==
    IF method = "squash"
    THEN <<"title", row.Number>>
    ELSE <<"Merge branch", row.SourceBranch, sourceRepo.Path, row.Number>>

\* Every failure of the adapter's merge is returned as an error.
MergeErrorResult_Generic(err, files, violations) == Err(ErrMergeCheck)

\* Lines 231-239: what Merge returns when the adapter's merge fails.
MergeErrorResult(err, files, violations) ==
    IF err = "notmergeable" THEN Violations(files, violations) ELSE Err(ErrMergeCheck)

\* Lines 213-239: the merge that writes the target branch.
GitMerge(i) ==
    /\ pc[i] = "merge"
    /\ LET call == MergeCall(wp[i].target, pr[i], i, pr[i].TargetBranch,
                             MergeTitle(in[i].Method, pr[i], wp[i].sourceRepo),
                             in[i].Method)
           repo == targetRepo[i].ID
       IN  /\ gitCalls' = [gitCalls EXCEPT ![i] = Append(@, call)]
           /\ \E o \in MergeOutcomes(call) :
               /\ refs' = RefsAfterMerge(call, o, repo, <<"merge", i>>)
               /\ commits' = CommitsAfterMerge(call, o, pr[i].ID, <<"merge", i>>)
               /\ IF o = "ok"
                  THEN /\ mo' = [mo EXCEPT ![i] =
                                   [err |-> "", BaseSHA |-> refs[repo],
                                    HeadSHA |-> call.HeadExpectedSHA,
                                    MergeBaseSHA |-> <<"base", repo>>,
                                    MergeSHA |-> <<"merge", i>>]]
                       /\ Goto(i, "update", <<"MergeWrite">>)
                  ELSE LET files == IF o = "notmergeable" THEN ConflictFiles ELSE NoFiles
                       IN  /\ mo' = [mo EXCEPT ![i] = [err |-> o, files |-> files]]
                           /\ Return(i, MergeErrorResult(o, files, rules[i].violations),
                                     <<"MergeWrite">>)
    /\ UNCHANGED <<in, targetRepo, pr, wp, rules>>
    /\ UNCHANGED <<mutex, prRows, branches, events, activities>>

\* The mutation without the change of State and Merged: the row stays open.
MergedRow_StaysOpen(row, i) ==
    [row EXCEPT !.MergedBy = SessionPrincipal(i),
                !.MergeMethod = in[i].Method,
                !.MergeCheckStatus = Mergeable,
                !.MergeTargetSHA = mo[i].BaseSHA,
                !.MergeBaseSHA = mo[i].MergeBaseSHA,
                !.MergeSHA = mo[i].MergeSHA,
                !.MergeConflicts = NoFiles,
                !.ActivitySeq = @ + 1]

\* Lines 241-258: the mutation Merge hands to UpdateOptLock.
MergedRow(row, i) ==
    [row EXCEPT !.State = StateMerged,
                !.Merged = <<"now", i>>,
                !.MergedBy = SessionPrincipal(i),
                !.MergeMethod = in[i].Method,
                !.MergeCheckStatus = Mergeable,
                !.MergeTargetSHA = mo[i].BaseSHA,
                !.MergeBaseSHA = mo[i].MergeBaseSHA,
                !.MergeSHA = mo[i].MergeSHA,
                !.MergeConflicts = NoFiles,
                !.ActivitySeq = @ + 1]

\* pullreqStore.UpdateOptLock: the mutation is applied to the stored row and
\* written back with the next version, or the store fails.
UpdateOptLock(key, mutated) ==
    [prRows EXCEPT ![key] = [mutated EXCEPT !.Version = @ + 1]]

\* Lines 241-261: mark the pull request as merged.
UpdatePR(i) ==
    /\ pc[i] = "update"
    /\ LET key == pr[i].ID IN
       \E ok \in BOOLEAN :
        IF ok
        THEN /\ prRows' = UpdateOptLock(key, MergedRow(prRows[key], i))
             /\ pr' = [pr EXCEPT ![i] = prRows'[key]]
             /\ Goto(i, "post", <<"PRUpdate">>)
        ELSE /\ Return(i, Err(ErrUpdate), <<"PRUpdate">>)
             /\ pr' = [pr EXCEPT ![i] = NoPR]
             /\ UNCHANGED prRows
    /\ UNCHANGED <<in, targetRepo, wp, rules, mo>>
    /\ UNCHANGED <<mutex, refs, commits, branches, gitCalls, events, activities>>

\* A failure to write the activity entry or to publish the event is returned
\* as an error.
PostMergeResult_FailOnSideEffect(i, actOK, evOK, deleted) ==
    IF actOK /\ evOK
    THEN Response(FALSE, mo[i].MergeSHA, deleted, NoFiles, rules[i].violations)
    ELSE Err("failed to write pull req merge activity")

\* Lines 269-303: errAct and errDelete are logged only, Merged returns
\* nothing; the response is the same whatever failed.
PostMergeResult(i, actOK, evOK, deleted) ==
    Response(FALSE, mo[i].MergeSHA, deleted, NoFiles, rules[i].violations)

\* Lines 263-303: activity entry, merged event, deletion of the source
\* branch; each of the three may fail.
PostMerge(i) ==
    /\ pc[i] = "post"
    /\ LET payload == [PR |-> pr[i].ID, By |-> SessionPrincipal(i),
                       MergeMethod |-> in[i].Method, MergeSHA |-> mo[i].MergeSHA,
                       TargetSHA |-> mo[i].BaseSHA, SourceSHA |-> mo[i].HeadSHA]
           call == DeleteBranchCall(wp[i].source, pr[i])
           name == <<call.WriteParams.RepoUID, call.BranchName>>
       IN  \E actOK \in BOOLEAN, evOK \in BOOLEAN, delOK \in BOOLEAN :
            /\ activities' = IF actOK THEN activities \cup {payload} ELSE activities
            /\ events' = IF evOK THEN events \cup {payload} ELSE events
            /\ IF rules[i].out.DeleteSourceBranch
               THEN /\ delOK => name \in branches
                    /\ gitCalls' = [gitCalls EXCEPT ![i] = Append(@, call)]
                    /\ branches' = IF delOK THEN branches \ {name} ELSE branches
                    /\ Return(i, PostMergeResult(i, actOK, evOK, delOK),
                              <<"Activity", "Event", "DeleteBranch">>)
               ELSE /\ ~delOK
                    /\ UNCHANGED <<gitCalls, branches>>
                    /\ Return(i, PostMergeResult(i, actOK, evOK, FALSE),
                              <<"Activity", "Event">>)
    /\ UNCHANGED locals
    /\ UNCHANGED <<mutex, prRows, refs, commits>>

\* The function has returned: its locals are gone.
Returned(i) ==
    /\ pc' = [pc EXCEPT ![i] = "done"]
    /\ UNCHANGED <<rv, cf, bl, ad>>
    /\ in' = [in EXCEPT ![i] = NoInput]
    /\ targetRepo' = [targetRepo EXCEPT ![i] = Repo(0)]
    /\ pr' = [pr EXCEPT ![i] = NoPR]
    /\ wp' = [wp EXCEPT ![i] = << >>]
    /\ rules' = [rules EXCEPT ![i] = NoRules]
    /\ mo' = [mo EXCEPT ![i] = NoMerge]
    /\ res' = [res EXCEPT ![i] = NoRes]
    /\ log' = [log EXCEPT ![i] = << >>]
    /\ gitCalls' = [gitCalls EXCEPT ![i] = << >>]

\* Lines 80-82: the deferred mutex.Unlock runs and the function returns.
Unlock(i) ==
    /\ pc[i] = "unlock"
    /\ mutex' = [mutex EXCEPT ![MergeLockKey(i)] = 0]
    /\ Returned(i)
    /\ UNCHANGED <<prRows, refs, commits, branches, events, activities>>

\* A return before the mutex was locked (lines 58, 65, 74, 78).
ReturnEarly(i) ==
    /\ pc[i] = "return"
    /\ Returned(i)
    /\ UNCHANGED <<mutex, prRows, refs, commits, branches, events, activities>>

Next ==
    \E i \in Invs :
        \/ Start(i)
        \/ AcquireLock(i)
        \/ LockError(i)
        \/ FindPR(i)
        \/ Verify(i)
        \/ DryRun(i)
        \/ GitMerge(i)
        \/ UpdatePR(i)
        \/ PostMerge(i)
        \/ Unlock(i)
        \/ ReturnEarly(i)

Spec == Init /\ [][Next]_vars

\* The two use cases that write to git, one request of either kind at a
\* time: CommitFiles runs while no Merge does and the other way round.
WriteNext ==
    \/ cf = NoCommitFiles /\ Next
    \/ (\A i \in Invs : pc[i] = "idle") /\ CommitNext

WriteSpec == Init /\ [][WriteNext]_vars

\* The scheduler keeps every invocation running, every call an invocation
\* makes returns, and a waiting mutex.Lock gets the mutex when it stays free;
\* that a request is made, or that Lock gives up, is up to the environment.
FairSpec ==
    /\ Spec
    /\ \A i \in Invs :
        /\ WF_vars(FindPR(i) \/ Verify(i) \/ DryRun(i) \/ GitMerge(i) \/ UpdatePR(i)
                   \/ PostMerge(i) \/ Unlock(i) \/ ReturnEarly(i))
        /\ WF_vars(AcquireLock(i))

\* ------------------------------------------------------------- properties
Range(f) == {f[n] : n \in DOMAIN f}

\* Invocation i made the call.
Made(i, call) == call \in Range(log[i])

\* Invocation i is between a successful Lock and its Unlock.
Locked(i) == pc[i] \in {"find", "verify", "dryrun", "merge", "update", "post", "unlock"}

\* Invocation i holds some mutex.
Holds(i) == \E k \in MutexKeys : mutex[k] = i

\* pr[i] is the row FindByNumber returned to invocation i.
HasRead(i) == Made(i, "PRFind") /\ ~Made(i, "PRUpdate") /\ pr[i] # NoPR

\* The calls that change the repository, the pull request or what is published.
Writes == {"MergeWrite", "PRUpdate", "Activity", "Event", "DeleteBranch"}

\* Invocation i has published no merged event and written no activity entry.
Silent(i) == \A e \in events \cup activities : e.By # SessionPrincipal(i)

\* Invocation i has made no adapter call, changed no row and published nothing.
NoEffects(i) ==
    /\ gitCalls[i] = << >>
    /\ Range(log[i]) \cap (Writes \cup {"MergeProbe"}) = {}
    /\ Silent(i)
    /\ pr[i] # NoPR => prRows[pr[i].ID] = pr[i]

\* C1: at any time at most one Merge invocation per target repository is
\* between a successful Lock and its Unlock, whatever pull requests the
\* invocations are for: each of them holds the mutex of its repository's
\* GitUID with pull request number 0.
MergeMutualExclusion ==
    \A i \in Invs :
        Locked(i) =>
            /\ mutex[<<targetRepo[i].GitUID, 0>>] = i
            /\ \A j \in Invs \ {i} :
                Locked(j) => targetRepo[j].GitUID # targetRepo[i].GitUID

\* An invocation waits for the lock while an invocation for another pull
\* request of the repository is about to merge.
MergeMutualExclusionWitness ==
    \E i, j \in Invs :
        /\ pc[i] = "merge" /\ pc[j] = "lock"
        /\ targetRepo[i] = targetRepo[j]
        /\ \E k \in PRKeys : prRows[k].State = StateOpen /\ k # pr[i].ID

\* The request of invocation i is not known to be a dry run.
NotDryRun(i) == "DryRun" \in DOMAIN in[i] => ~in[i].DryRun

\* Another invocation's merge of the pull request of invocation i was
\* written to the target branch.
MergedByOther(i) ==
    \E c \in commits : c.PR = pr[i].ID /\ c.SHA # <<"merge", i>>

\* C2: of two non-dry-run Merge requests for the same pull request with its
\* SourceSHA, neither stopped by a violation, a conflict or a failing read,
\* exactly one succeeds: the one that comes to read the pull request after
\* the other's merge was written finds it merged and returns 'Pull request
\* already merged'; a request that succeeded leaves the one merge commit of
\* the pull request in git and its SHA in the row.
ConcurrentMergeExactlyOnce ==
    \A i \in Invs :
        ( /\ pc[i] = "unlock" /\ pr[i] # NoPR /\ NotDryRun(i)
          /\ in[i].SourceSHA = pr[i].SourceSHA
          /\ \/ res[i].kind = "response"
             \/ res[i].kind = "error" /\ res[i].msg = ErrAlreadyMerged )
        => /\ MergedByOther(i) <=> res[i] = Err(ErrAlreadyMerged)
           /\ prRows[pr[i].ID].State = StateMerged
           /\ {c \in commits : c.PR = pr[i].ID}
                = {[PR |-> pr[i].ID, SHA |-> prRows[pr[i].ID].MergeSHA]}

\* C3 as stated: a request whose SourceSHA differs from the one of the row
\* read under the lock is rejected with the newer-commit error and has no
\* effects.
StaleSourceSHANewerCommit ==
    \A i \in Invs :
        (HasRead(i) /\ pr[i].SourceSHA # in[i].SourceSHA)
        => /\ pc[i] = "unlock"
           /\ res[i] = Err(ErrNewerCommit)
           /\ NoEffects(i)

\* C3, amended: such a request is rejected with an error and has no effects:
\* no adapter call, no row update, no activity entry, no event, no branch
\* deletion.  The error is the newer-commit error when the row is open and
\* not merged; a merged row is reported as already merged and a row that is
\* not open as such.
StaleSourceSHARejected ==
    \A i \in Invs :
        (HasRead(i) /\ pr[i].SourceSHA # in[i].SourceSHA)
        => /\ pc[i] = "unlock"
           /\ res[i] = Err(IF pr[i].Merged # NoSHA THEN ErrAlreadyMerged
                           ELSE IF pr[i].State # StateOpen THEN ErrMustBeOpen
                           ELSE ErrNewerCommit)
           /\ NoEffects(i)

\* An invocation read an open, unmerged row with another SourceSHA than the
\* requested one and returned the newer-commit error.
StaleSourceSHAWitness ==
    \E i \in Invs :
        /\ HasRead(i) /\ pr[i].SourceSHA # in[i].SourceSHA
        /\ pr[i].State = StateOpen /\ pr[i].Merged = NoSHA
        /\ res[i] = Err(ErrNewerCommit)

MergeWriteImpliesMergedRow ==
    /\ \A i \in Invs :
        (pc[i] = "unlock" /\ mo[i].err = "")
        => LET key == <<in[i].RepoRef, in[i].PullreqNum>>
           IN  /\ prRows[key].State = StateMerged
               /\ prRows[key].MergeSHA = mo[i].MergeSHA
               /\ prRows[key].MergeTargetSHA = mo[i].BaseSHA
    /\ (\A i \in Invs : pc[i] \in {"idle", "done"})
        => \A c \in commits : prRows[c.PR].State = StateMerged

\* C6: once the row of a pull request has Merged set it never changes again;
\* every invocation that reads it under the lock, whatever it asks for,
\* returns 'Pull request already merged' and has no effects; and no step of
\* an invocation for a merged pull request, other than the steps by which
\* the merging invocation itself finishes, changes the store, git or what
\* is published.
MergedIsTerminal ==
    /\ [](\A i \in Invs :
            (HasRead(i) /\ pr[i].Merged # NoSHA)
            => /\ pc[i] = "unlock"
               /\ res[i] = Err(ErrAlreadyMerged)
               /\ NoEffects(i))
    /\ [][\A k \in PRKeys : prRows[k].Merged # NoSHA => prRows'[k] = prRows[k]]_vars
    /\ [][\A i \in Invs :
            ( /\ pc'[i] # pc[i] /\ pc[i] # "post"
              /\ pr[i] # NoPR /\ prRows[pr[i].ID].Merged # NoSHA )
            => UNCHANGED <<prRows, refs, commits, branches, events, activities>>]_vars

\* A squash request with a SourceSHA that is not the pull request's finds
\* the pull request merged; its bypass and dry-run flags were never read.
MergedIsTerminalWitness ==
    \E i \in Invs :
        /\ pc[i] = "unlock" /\ HasRead(i)
        /\ pr[i].Merged # NoSHA /\ pr[i].State = StateMerged
        /\ in[i].Method = "squash" /\ in[i].SourceSHA # pr[i].SourceSHA
        /\ DOMAIN in[i] \cap {"BypassRules", "DryRun"} = {}
        /\ res[i] = Err(ErrAlreadyMerged)

\* C7: an invocation that is not between Lock and Unlock holds no mutex, so
\* whatever the return taken the mutex is free once the invocation has
\* returned; an invocation that holds the mutex lets go of it, and an
\* invocation waiting in Lock does not wait forever.
LockAlwaysReleased ==
    /\ [](\A i \in Invs : ~Locked(i) => ~Holds(i))
    /\ \A i \in Invs : []<>(pc[i] # "lock" /\ ~Holds(i))

\* An invocation is about to return an error under the lock while another
\* one waits for the mutex.
LockAlwaysReleasedWitness ==
    \E i, j \in Invs :
        /\ pc[i] = "unlock" /\ res[i].kind = "error" /\ Holds(i)
        /\ pc[j] = "lock"

\* The calls Merge makes before it locks the mutex.
PreLockCalls == {"Sanitize", "RepoAccess"}

\* C8: every read of the pull request, the reviewers, the status checks, the
\* rules and the code owners comes after the Lock of the invocation, only
\* the sanitization and the repository access come before it, and the row
\* the invocation decides on is the row the store holds.
ReadsAfterLock ==
    \A i \in Invs :
        /\ \A n \in DOMAIN log[i] :
            (log[i][n] \in PreLockCalls) <=> (\A m \in 1..n : log[i][m] # "Lock")
        /\ (pr[i] # NoPR) => (Locked(i) /\ Holds(i) /\ prRows[pr[i].ID] = pr[i])

\* An invocation verified the rules on a row it read while another
\* invocation for the same pull request had already been let in.
ReadsAfterLockWitness ==
    \E i, j \in Invs :
        /\ pc[i] \in {"dryrun", "merge"} /\ Made(i, "MergeVerify")
        /\ pc[j] = "lock" /\ targetRepo[j] = targetRepo[i]

\* The request of invocation i is a dry run.
IsDryRun(i) == "DryRun" \in DOMAIN in[i] /\ in[i].DryRun

\* C9: a dry run never updates the row, writes no activity entry, publishes
\* no event and deletes no branch; its only adapter call is a merge that
\* names no ref; no step of it changes the store, git or what is published;
\* its response has DryRun set and no SHA.
DryRunHasNoEffects ==
    /\ [](\A i \in Invs :
            IsDryRun(i)
            => /\ Range(log[i]) \cap Writes = {}
               /\ Silent(i)
               /\ Len(gitCalls[i]) <= 1
               /\ \A n \in DOMAIN gitCalls[i] :
                    gitCalls[i][n].op = "Merge" /\ gitCalls[i][n].RefName = << >>
               /\ res[i].kind = "response" => (res[i].DryRun /\ res[i].SHA = NoSHA))
    /\ [][\A i \in Invs :
            (IsDryRun(i) /\ pc'[i] # pc[i])
            => UNCHANGED <<prRows, refs, commits, branches, events, activities>>]_vars

\* A dry run whose probe found the pull request mergeable.
DryRunWitness ==
    \E i \in Invs :
        /\ pc[i] = "unlock" /\ IsDryRun(i)
        /\ Len(gitCalls[i]) = 1
        /\ res[i].kind = "response" /\ res[i].ConflictFiles = NoFiles

\* C10: when the merge that writes reports not-mergeable, Merge returns the
\* conflicting files together with the rule violations and no error, and
\* the row is as it was read (open, not merged); there is no activity entry,
\* no event and no branch deletion.
NotMergeableKeepsPROpen ==
    \A i \in Invs :
        mo[i].err = "notmergeable"
        => /\ pc[i] = "unlock"
           /\ res[i] = Violations(mo[i].files, rules[i].violations)
           /\ res[i].ConflictFiles # NoFiles
           /\ prRows[pr[i].ID] = pr[i]
           /\ pr[i].State = StateOpen /\ pr[i].Merged = NoSHA
           /\ Range(log[i]) \cap (Writes \ {"MergeWrite"}) = {}
           /\ Silent(i)
           /\ refs[targetRepo[i].ID] # <<"merge", i>>

\* A merge that passed the rules with a bypassed violation ran into a conflict.
NotMergeableWitness ==
    \E i \in Invs :
        /\ mo[i].err = "notmergeable"
        /\ rules[i].violations # << >>
        /\ res[i].kind = "violations"

\* The row update of invocation i succeeded.
RowUpdated(i) == Made(i, "PRUpdate") /\ pr[i] # NoPR

\* C11: once UpdateOptLock succeeded, Merge returns a response that is no
\* dry run and carries the SHA of the merge, the one stored in the row,
\* whether or not the activity entry was written, the event published or the
\* source branch deleted; BranchDeleted is set only if DeleteBranch was
\* called and removed the branch it was called for, and is false otherwise.
SideEffectFailuresKeepSuccess ==
    \A i \in Invs :
        RowUpdated(i)
        => /\ pc[i] \in {"post", "unlock"}
           /\ pc[i] = "unlock"
              => /\ res[i].kind = "response" /\ ~res[i].DryRun
                 /\ res[i].SHA = mo[i].MergeSHA
                 /\ res[i].SHA = prRows[pr[i].ID].MergeSHA
                 /\ res[i].BranchDeleted
                    => /\ Made(i, "DeleteBranch")
                       /\ LET call == gitCalls[i][Len(gitCalls[i])]
                          IN  <<call.WriteParams.RepoUID, call.BranchName>> \notin branches
                 /\ ~Made(i, "DeleteBranch") => ~res[i].BranchDeleted

\* A merge whose activity entry, event and branch deletion all failed
\* returned its merge SHA.
SideEffectFailuresWitness ==
    \E i \in Invs :
        /\ pc[i] = "unlock" /\ RowUpdated(i)
        /\ Made(i, "DeleteBranch") /\ Silent(i)
        /\ res[i].kind = "response" /\ ~res[i].BranchDeleted
        /\ res[i].SHA = <<"merge", i>>

\* C12: the source-side write parameters carry the RepoUID and the hook
\* environment of the pull request's source repository and the target-side
\* ones those of the target repository; the merge is written with the
\* target-side parameters and the source branch is deleted with parameters
\* of the source repository.
WriteParamsMatchRepository ==
    \A i \in Invs :
        wp[i] # << >>
        => /\ wp[i].target.RepoUID = targetRepo[i].GitUID
           /\ wp[i].target.EnvVars.RepoID = targetRepo[i].ID
           /\ wp[i].sourceRepo.ID = pr[i].SourceRepoID
           /\ wp[i].source.RepoUID = wp[i].sourceRepo.GitUID
           /\ wp[i].source.EnvVars.RepoID = wp[i].sourceRepo.ID
           /\ \A n \in DOMAIN gitCalls[i] :
                gitCalls[i][n].WriteParams.RepoUID =
                    IF gitCalls[i][n].op = "DeleteBranch"
                    THEN Repo(pr[i].SourceRepoID).GitUID
                    ELSE targetRepo[i].GitUID

\* MergeVerify returned its result to invocation i.
Verified(i) == "BypassRules" \in DOMAIN in[i]

\* C13: a violation is marked Bypassed only if the request asked for a
\* bypass and the bypass policy of its rule can match the actor.  If every
\* violation MergeVerify returned is Bypassed, Merge is not blocked: a real
\* merge goes on to the adapter's merge (a dry run to its answer).  If some
\* violation is not Bypassed, Merge is blocked: it returns the violations and
\* never calls the adapter, however many rules passed or were bypassed.
BypassedViolationsDoNotBlock ==
    \A i \in Invs :
        Verified(i)
        => LET v == rules[i].violations
               policy(n) == RepoRules(targetRepo[i].ID)[v[n].Rule].Bypass
           IN  /\ \A n \in DOMAIN v :
                    v[n].Bypassed
                    => /\ in[i].BypassRules
                       /\ policy(n).RepoOwners \/ SessionPrincipal(i) \in policy(n).UserIDs
               /\ IF \A n \in DOMAIN v : v[n].Bypassed
                  THEN IF in[i].DryRun
                       THEN pc[i] = "dryrun" \/ res[i].kind \in {"response", "error"}
                       ELSE pc[i] = "merge" \/ Made(i, "MergeWrite")
                  ELSE /\ pc[i] = "unlock"
                       /\ res[i] = Violations(NoFiles, v)
                       /\ gitCalls[i] = << >>
                       /\ ~Made(i, "MergeWrite")

\* Both rules of the repository were violated and both violations bypassed,
\* and the merge was written.
BypassedViolationsWitness ==
    \E i \in Invs :
        /\ Verified(i) /\ ~in[i].DryRun
        /\ Len(rules[i].violations) = 2
        /\ \A n \in DOMAIN rules[i].violations : rules[i].violations[n].Bypassed
        /\ Made(i, "MergeWrite") /\ mo[i].err = ""

\* The value Branch gives the Bypassed flags of the verification rv.
BypassEligible ==
    rv.in.AllowBypass /\ BypassMatches(rv.rule.Bypass, rv.in.Actor, rv.in.IsRepoOwner)

RefChangeVerifyNoOp ==
    ( /\ rv.fn = "RefChangeVerify"
      /\ rv.in.RefType # "branch" \/ rv.in.RefNames = << >> )
    => /\ rv.out.violations = << >>
       /\ ~rv.out.err
       /\ ~rv.out.lifecycle

\* A branch ref without names, for which the lifecycle policy would have
\* reported violations and an error.
RefChangeVerifyNoOpWitness ==
    /\ rv.fn = "RefChangeVerify"
    /\ rv.in.RefType = "branch" /\ rv.in.RefNames = << >>
    /\ rv.inner.violations # << >> /\ rv.inner.err
    /\ rv.out.violations = << >>

\* The calls by which CommitFiles looks at the protection rules.
RuleCalls == {"IsSpaceAdmin", "RulesLoad", "CanPush"}

\* C16: a CommitFiles request for an existing branch decodes and writes only
\* after CanPush was evaluated for that very branch and found nothing
\* critical; on a critical violation it returns the violations with no
\* commit ID and no error, and the git write is not made.
CommitRulesBeforeWrite ==
    (cf # NoCommitFiles /\ cf.in.NewBranch = << >>)
    => /\ (cf.pc \in {"decode", "write"} \/ cf.in.Actions # << >> \/ cf.git # << >>)
          => /\ Len(cf.canPush) = 1
             /\ cf.canPush[1].BranchNames = <<cf.in.Branch>>
             /\ cf.canPush[1].Actor = cf.principal
             /\ ~IsCritical(cf.violations)
       /\ \A n, m \in DOMAIN cf.calls :
            (cf.calls[n] = "CommitFiles" /\ cf.calls[m] = "CanPush") => m < n
       /\ IsCritical(cf.violations)
          => /\ cf.pc = "return"
             /\ cf.res = CommitResponse(NoSHA, cf.violations)
             /\ cf.git = << >> /\ cf.in.Actions = << >>
             /\ "CommitFiles" \notin Range(cf.calls)

\* CanPush reported a bypassed and a critical violation, and the request
\* returned them.
CommitRulesWitness ==
    /\ cf.pc = "return" /\ cf.in.NewBranch = << >>
    /\ Len(cf.violations) = 2
    /\ cf.violations[1].Bypassed /\ ~cf.violations[2].Bypassed
    /\ cf.res.kind = "response" /\ cf.res.CommitID = NoSHA

\* C17: a CommitFiles request with a new branch makes none of the calls that
\* load or check rules, has no violations to return, and goes from the
\* access check to the decoding of the payloads and the git write.
NewBranchSkipsRules ==
    (cf # NoCommitFiles /\ cf.in.NewBranch # << >>)
    => /\ Range(cf.calls) \cap RuleCalls = {}
       /\ cf.canPush = << >> /\ cf.violations = << >>
       /\ cf.pc # "rules"
       /\ cf.res.kind = "response" => cf.res.RuleViolations = << >>
       /\ cf.res.kind = "error"
          => cf.res.msg \in {"access", DecodeError.msg, "git",
                             "failed to create RPC write params"}

\* A request with a new branch wrote its commit.
NewBranchWitness ==
    /\ cf.pc = "return" /\ cf.in.NewBranch # << >>
    /\ Len(cf.git) = 1 /\ cf.git[1].NewBranch = cf.in.NewBranch
    /\ cf.res.kind = "response" /\ cf.res.CommitID # NoSHA

\* C18: when an action of a CommitFiles request has Encoding base64 and a
\* payload that is no base64, the request returns an error of the class
\* InvalidArgument and makes no git write, wherever the action stands in the
\* list and whatever came before it.
Base64FailureInvalidArgument ==
    cf # NoCommitFiles
    => \A n \in DOMAIN cf.in.Actions :
        ( /\ cf.in.Actions[n].Encoding = "base64"
          /\ ~Base64Decode(cf.in.Actions[n].Payload).ok )
        => /\ cf.pc = "return"
           /\ cf.res.kind = "error"
           /\ cf.res.class = "InvalidArgument"
           /\ cf.git = << >>

\* C19: every git write of CommitFiles and every merge that Merge writes
\* names the system service account as committer and the principal of the
\* session as author, two different identities.
CommitterIsSystem ==
    /\ \A i \in Invs : \A n \in DOMAIN gitCalls[i] :
        (gitCalls[i][n].op = "Merge" /\ gitCalls[i][n].RefName # << >>)
        => /\ gitCalls[i][n].Committer = SystemPrincipal
           /\ gitCalls[i][n].Author = SessionPrincipal(i)
    /\ cf # NoCommitFiles
       => \A n \in DOMAIN cf.git :
            /\ cf.git[n].Committer = SystemPrincipal
            /\ cf.git[n].Author = cf.principal
    /\ SystemPrincipal \notin Principals

\* The merge of a squash request was written in the name of its session.
CommitterIsSystemWitness ==
    \E i \in Invs :
        /\ pc[i] = "update" /\ in[i].Method = "squash"
        /\ gitCalls[i][Len(gitCalls[i])].Author = SessionPrincipal(i)
        /\ gitCalls[i][Len(gitCalls[i])].Committer = SystemPrincipal

\* The lines of the file that the lines of a stream carry, in order.
RECURSIVE ContentLines(_)
ContentLines(lines) ==
    IF lines = << >> THEN << >>
    ELSE (IF Head(lines).t = "text" THEN <<Head(lines).s>> ELSE << >>)
         \o ContentLines(Tail(lines))

\* The Lines of the parts, one after the other.
RECURSIVE JoinedLines(_)
JoinedLines(parts) ==
    IF parts = << >> THEN << >>
    ELSE Head(parts).Lines \o JoinedLines(Tail(parts))

BlameErrors == {"NotFound", "InvalidArgument", "Unknown", "Internal", "Canceled"}

\* The runs of a stream: for each stretch of headers of one commit, the commit
\* and the content lines of the stretch.
RECURSIVE RunsOf(_, _)
RunsOf(lines, acc) ==
    IF lines = << >> THEN acc
    ELSE LET l == Head(lines)
             n == Len(acc)
         IN  IF l.t = "head"
             THEN IF n > 0 /\ acc[n].SHA = l.sha THEN RunsOf(Tail(lines), acc)
                  ELSE RunsOf(Tail(lines), Append(acc, [SHA |-> l.sha, Lines |-> << >>]))
             ELSE IF l.t = "text" /\ n > 0
             THEN RunsOf(Tail(lines), [acc EXCEPT ![n].Lines = Append(@, l.s)])
             ELSE RunsOf(Tail(lines), acc)

\* C21: the parts returned are, one for one and in order, the first runs of
\* the stream: a part holds the content lines of all the blocks of its run,
\* and no two parts that follow each other have the same commit SHA.
SameCommitBlocksJoined ==
    bl # NoBlame
    => LET runs == RunsOf(bl.stream, << >>)
       IN  /\ Len(bl.parts) <= Len(runs)
           /\ \A k \in DOMAIN bl.parts :
                /\ bl.parts[k].Commit.SHA = runs[k].SHA
                /\ bl.parts[k].Lines = runs[k].Lines
           /\ \A k \in 1..(Len(bl.parts) - 1) :
                bl.parts[k].Commit.SHA # bl.parts[k + 1].Commit.SHA

\* A stream of two or more blocks, all of one commit, came out as one part.
SameCommitBlocksWitness ==
    /\ bl # NoBlame /\ bl.ret = "EOF"
    /\ Len(bl.parts) = 1 /\ Len(bl.parts[1].Lines) >= 2
    /\ Cardinality({k \in DOMAIN bl.stream : bl.stream[k].t = "head"}) >= 2

BlameConsumerReturns ==
    /\ (bl # NoBlame /\ bl.exit \in RunErrors)
          ~> (bl.pc = "ready" /\ bl.ret \in BlameErrors)
    /\ (bl # NoBlame /\ bl.exit = "ok")
          ~> (bl.pc = "ready" /\ bl.ret = "EOF")

\* git failed before it had written all its output, with nothing in stderr,
\* while a call was waiting for a line; the call returned an error.
BlameConsumerWitness ==
    /\ bl # NoBlame /\ bl.pc = "ready" /\ bl.ret = "Internal"
    /\ bl.exit = "exit status 128" /\ bl.git # << >> /\ bl.parts = << >>

\* C24: after the context was cancelled, the error NextPart returns is
\* Canceled.
BlameCancelIsCanceled ==
    (bl # NoBlame /\ bl.exit = "context canceled" /\ bl.pc = "ready"
        /\ bl.ret \in BlameErrors)
    => bl.ret = "Canceled"

\* C25: extractEmail returns what is between the first and the last character
\* of a string of two or more characters that begins with "<" and ends with
\* ">", and every other string as it is.
EmailUnwrapped ==
    ad.fn = "extractEmail"
    => LET n == Len(ad.s)
           wrapped == n >= 2 /\ ad.s[1] = "<" /\ ad.s[n] = ">"
       IN  /\ wrapped => /\ Len(ad.out) = n - 2
                         /\ \A k \in 1..(n - 2) : ad.out[k] = ad.s[k + 1]
           /\ ~wrapped => ad.out = ad.s

\* "<a@>" gave "a@"; unwrapped again, "a@" stays "a@".
EmailUnwrappedWitness ==
    /\ ad.fn = "extractEmail"
    /\ ad.s = <<"<", "a", "@", ">">> /\ ad.out = <<"a", "@">>
    /\ ExtractEmail(ad.out) = ad.out

\* C26: a rev-list output "<L> TAB <R> NEWLINE" becomes Ahead = L and
\* Behind = R; an output without a tab or with a side that is not a number
\* ends the call with an error of no class (not not-found) and without a
\* result list, the zero divergence of the failed request is not returned.
DivergenceOutputParsed ==
    ad.fn = "GetCommitDivergences"
    => \A k \in DOMAIN ad.git :
        /\ ad.git[k].kind = "counts"
            => ad.res[k] = [Ahead |-> ad.git[k].l, Behind |-> ad.git[k].r]
        /\ ad.git[k].kind = "malformed"
            => /\ k = Len(ad.git) /\ ad.pc = "done"
               /\ ad.err # "" /\ ad.err # "ErrNotFound"
               /\ ad.ret = << >>

\* After a request whose counts, 11 and 2, were parsed, rev-list printed
\* "12" and a newline, without a tab: the call returned an error and no list.
DivergenceOutputWitness ==
    /\ ad.fn = "GetCommitDivergences" /\ ad.pc = "done" /\ Len(ad.git) = 2
    /\ ad.git[1].kind = "counts" /\ ad.res[1] = [Ahead |-> 11, Behind |-> 2]
    /\ ad.git[2].out = <<"1", "2", Newline>>
    /\ ad.err # "" /\ ad.ret = << >>

\* C27: a request whose rev-list fails with not-found gets {-1, -1} at its
\* index and the loop goes on; any other error ends the call without a list;
\* a call without such an error returns one entry per request, in the order
\* of the requests; a divergence that was computed has no negative count.
DivergenceSentinel ==
    ad.fn = "GetCommitDivergences"
    => /\ \A k \in DOMAIN ad.git :
            /\ ad.git[k].kind = "notfound"
                => ad.res[k] = [Ahead |-> 0 - 1, Behind |-> 0 - 1] /\ ad.i > k
            /\ ad.git[k].kind \in {"failed", "malformed"}
                => k = Len(ad.git) /\ ad.pc = "done" /\ ad.err # "" /\ ad.ret = << >>
            /\ ad.git[k].kind = "counts"
                => ad.res[k].Ahead >= 0 /\ ad.res[k].Behind >= 0
       /\ (ad.pc = "done" /\ ad.err = "")
            => /\ Len(ad.git) = ad.n /\ ad.ret = <<ad.res>>
               /\ DOMAIN ad.ret[1] = 1..ad.n
               /\ \A k \in 1..ad.n :
                    ad.ret[1][k] = IF ad.git[k].kind = "notfound"
                                   THEN [Ahead |-> 0 - 1, Behind |-> 0 - 1]
                                   ELSE [Ahead |-> ad.git[k].l, Behind |-> ad.git[k].r]

\* The first pair was not found, the second has no diverging commit: the
\* list holds the sentinel and then the zero divergence.
DivergenceSentinelWitness ==
    /\ ad.fn = "GetCommitDivergences" /\ ad.pc = "done" /\ ad.err = ""
    /\ ad.n = 2 /\ ad.git[1].kind = "notfound"
    /\ ad.ret[1][1] = [Ahead |-> 0 - 1, Behind |-> 0 - 1]
    /\ ad.git[2].kind = "counts" /\ ad.ret[1][2] = [Ahead |-> 0, Behind |-> 0]

\* C28: with max above 0 the two counts of a divergence add up to max at
\* most; with max 0 they are the numbers of commits on each side.
DivergenceCap ==
    ad.fn = "GetCommitDivergences"
    => \A k \in DOMAIN ad.git :
        ad.git[k].kind = "counts"
        => /\ ad.max > 0 => ad.res[k].Ahead + ad.res[k].Behind <= ad.max
           /\ ad.max = 0 => /\ ad.res[k].Ahead = ad.git[k].ahead
                            /\ ad.res[k].Behind = ad.git[k].behind

\* With max 2, a pair 11 ahead and 2 behind is reported as 2 ahead and
\* 0 behind.
DivergenceCapWitness ==
    /\ ad.fn = "GetCommitDivergences" /\ ad.max = 2
    /\ \E k \in DOMAIN ad.git :
        /\ ad.git[k].kind = "counts" /\ ad.git[k].ahead = 11 /\ ad.git[k].behind = 2
        /\ ad.res[k] = [Ahead |-> 2, Behind |-> 0]

\* C29: a page listed with a path filter comes back without its first
\* commit when that commit renames the filter path to another path, and
\* otherwise loses at most its first commit, the other commits staying in
\* their order; no SHA is returned twice.
RenamedLeadingCommitRemoved ==
    (ad.fn = "ListCommits" /\ ad.pc = "done" /\ ad.err = "" /\ ad.path # NoPath)
    => LET page == ad.out[1]
       IN  /\ page = ad.commits \/ (ad.commits # << >> /\ page = Tail(ad.commits))
           /\ \A j, k \in DOMAIN page : page[j] = page[k] => j = k
           /\ (/\ Len(ad.commits) > 0
               /\ \E n \in DOMAIN ad.logs[1].lines, new \in FilePaths :
                    ad.logs[1].lines[n] = RenameLine(ad.path, new))
              => page = Tail(ad.commits)

\* C30: getRenameDetails runs git log on the first commit of the page and,
\* when the page has more than one commit, on the last, and on no other;
\* it returns at most one record with CommitSHABefore, that of the first
\* commit, and at most one with CommitSHAAfter, that of the last commit of a
\* page of more than one; for an empty page it returns no record and runs
\* no git log.
RenameDetailsBounded ==
    ad.fn = "ListCommits"
    => LET n == Len(ad.commits)
           before == {k \in DOMAIN ad.renames : ad.renames[k].CommitSHABefore # NoSHA}
           after == {k \in DOMAIN ad.renames : ad.renames[k].CommitSHAAfter # NoSHA}
       IN  /\ Len(ad.calls) <= 2 /\ Len(ad.renames) <= 2
           /\ n = 0 => ad.calls = << >> /\ ad.renames = << >>
           /\ Len(ad.calls) >= 1 => ad.calls[1] = ad.commits[1]
           /\ Len(ad.calls) = 2 => n > 1 /\ ad.calls[2] = ad.commits[n]
           /\ Cardinality(before) <= 1 /\ Cardinality(after) <= 1
           /\ before \cap after = {} /\ before \cup after = DOMAIN ad.renames
           /\ \A k \in before : ad.renames[k].CommitSHABefore = ad.commits[1]
           /\ \A k \in after : n > 1 /\ ad.renames[k].CommitSHAAfter = ad.commits[n]

\* A page of three commits whose first and last commits are renames: two git
\* log calls, a record of each kind.
RenameDetailsWitness ==
    /\ ad.fn = "ListCommits" /\ ad.pc = "done" /\ ad.err = ""
    /\ Len(ad.commits) = 3 /\ ad.calls = <<ad.commits[1], ad.commits[3]>>
    /\ Len(ad.renames) = 2
    /\ ad.renames[1].CommitSHABefore = ad.commits[1]
    /\ ad.renames[2].CommitSHAAfter = ad.commits[3]

\* ------------------------------------------- updates outside the merge lock
\* Largest version a row reaches through updates made outside the merge lock.
MaxVersion == 2

\* The mutation of the state change: the pull request is closed.
ClosedRow(row) == [row EXCEPT !.State = StateClosed]

\* The mutation of the branch update: the source branch has a new head.
PushedRow(row) == [row EXCEPT !.SourceSHA = <<"src", 2>>]

\* Another request changes an open pull request through UpdateOptLock; it
\* takes no merge lock, so it runs between any two steps of a Merge.
ExternalUpdate ==
    /\ \E key \in PRKeys, mutation \in {"close", "push"} :
        /\ prRows[key].State = StateOpen
        /\ prRows[key].Version < MaxVersion
        /\ mutation = "push" => prRows[key].SourceSHA # <<"src", 2>>
        /\ prRows' = UpdateOptLock(key, IF mutation = "close" THEN ClosedRow(prRows[key])
                                        ELSE PushedRow(prRows[key]))
    /\ UNCHANGED <<pc, res, log>>
    /\ UNCHANGED locals
    /\ UNCHANGED <<mutex, refs, commits, branches, gitCalls, events, activities>>
    /\ UNCHANGED <<rv, cf, bl, ad>>

RaceNext == Next \/ ExternalUpdate

\* Merge invocations together with the updates made outside the merge lock.
RaceSpec == Init /\ [][RaceNext]_vars

\* The step is the update of Merge that writes the row of key as merged.
WritesMerged(key) ==
    prRows[key].State # StateMerged /\ prRows'[key].State = StateMerged

\* C31: whatever updates other requests make to the pull request through
\* UpdateOptLock outside the merge lock, the row is set to Merged only if,
\* when the merged row is written, it is open, no draft and has the SourceSHA
\* the Merge validated; a closed pull request is never turned into Merged.
MergedOnlyIfStillValid ==
    [][\A i \in Invs :
        (pc[i] = "update" /\ WritesMerged(pr[i].ID))
            => /\ prRows[pr[i].ID].State = StateOpen
               /\ ~prRows[pr[i].ID].IsDraft
               /\ prRows[pr[i].ID].SourceSHA = in[i].SourceSHA]_vars

\* The last thing invocation i did was to read and validate pull request pr[i].
JustValidated(i) ==
    pr[i] # NoPR /\ log[i] # << >> /\ log[i][Len(log[i])] = "PRFind"

\* The request of invocation i names another SourceSHA than the row it read.
StaleSHA(i) == pr[i].SourceSHA # in[i].SourceSHA

\* C32: the validation failures of the row read under the lock are reported
\* in a fixed order: already merged, then not open, then stale SourceSHA,
\* then draft.  A merged row yields 'already merged' also when the SourceSHA
\* of the request is stale; a stale SourceSHA on an open row yields the
\* 'newer commit' message, with no merge tried and so no conflict result.
ValidationPrecedence ==
    \A i \in Invs : JustValidated(i) =>
        /\ IF pr[i].Merged # NoSHA THEN res[i] = Err(ErrAlreadyMerged)
           ELSE IF pr[i].State # StateOpen THEN res[i] = Err(ErrMustBeOpen)
           ELSE IF StaleSHA(i) THEN res[i] = Err(ErrNewerCommit)
           ELSE IF pr[i].IsDraft THEN res[i] = Err(ErrDraft)
           ELSE res[i] = NoRes /\ pc[i] = "verify"
        /\ res[i] # NoRes => gitCalls[i] = << >> /\ res[i].kind = "error"

ValidationPrecedenceWitness ==
    \E i \in Invs :
        /\ JustValidated(i) /\ pr[i].Merged # NoSHA /\ StaleSHA(i)
        /\ res[i] = Err(ErrAlreadyMerged)

\* Invocation i made the merge-conflict probe of the dry run.
Probed(i) == Made(i, "MergeProbe")

\* The dry run of invocation i has its response.
DryRunAnswered(i) == IsDryRun(i) /\ res[i].kind = "response" /\ pr[i] # NoPR

ReportsEvent(i) == ~Made(i, "Event") /\ Made(i, "Event")'

\* C34: over all Merge invocations on a pull request the merged event is
\* published at most once: the step that reports it is taken by an invocation
\* that is no dry run, after its UpdateOptLock succeeded and wrote the row as
\* merged by it, and no event of that pull request was published before;
\* nothing else publishes an event, so invocations that are rejected, blocked
\* by rules, stopped by a conflict or a failure publish none.
MergedEventOnce ==
    [][/\ \A i \in Invs : ReportsEvent(i) =>
            /\ pc[i] = "post" /\ RowUpdated(i) /\ ~IsDryRun(i)
            /\ prRows[pr[i].ID].State = StateMerged
            /\ prRows[pr[i].ID].MergedBy = SessionPrincipal(i)
            /\ \A e \in events : e.PR # pr[i].ID
            /\ \A e \in events' \ events : e.PR = pr[i].ID /\ e.By = SessionPrincipal(i)
       /\ events' # events => \E i \in Invs : ReportsEvent(i)
       /\ \A key \in PRKeys : Cardinality({e \in events' : e.PR = key}) <= 1]_vars

\* The event of a merged pull request is published while another invocation
\* on the same pull request was rejected and published none.
MergedEventOnceWitness ==
    \E j \in Invs, e \in events :
        /\ e.By # SessionPrincipal(j) /\ e.PR = pr[j].ID
        /\ prRows[e.PR].State = StateMerged /\ prRows[e.PR].MergedBy = e.By
        /\ res[j] = Err(ErrAlreadyMerged)

\* C35: once NextPart has returned the end marker, every later call returns
\* the end marker again and no part: the parts returned do not change any
\* more, nothing is read or pushed back, and a call ends with no other result
\* than the end marker.
BlameEndIsFinal ==
    [][(bl # NoBlame /\ bl.ended)
        => /\ bl'.parts = bl.parts
           /\ bl'.ended
           /\ bl'.lastLine = EmptyLine /\ bl'.commit = NoCommit /\ bl'.lines = << >>
           /\ bl'.pc = "ready" => bl'.ret = "EOF"]_vars

\* The last part was returned with the end marker, and a later call has
\* returned the end marker once more.
BlameEndWitness ==
    /\ bl # NoBlame /\ bl.ended /\ bl.pc = "ready" /\ bl.ret = "EOF"
    /\ bl.err = "EOF" /\ bl.lines = << >> /\ bl.parts # << >>

\* C36: NextPart reads the stderr buffer only after the goroutine that runs
\* git has come to its end: whatever made nextLine fail, git has exited when
\* the loop of NextPart is left.
StderrReadAfterExit ==
    (bl # NoBlame /\ bl.pc = "tail") => bl.exit # "running"

\* ------------------------------------------------------ githook PreReceive
\* Largest number of reference updates of one push.
MaxRefUpdates == 2

\* types.NilSHA and the commits a reference update names.
NilSHA == "0000000000000000000000000000000000000000"
HookSHAs == {NilSHA, "c1"}

\* gitReferenceNamePrefixBranch, gitReferenceNamePrefixTag
PrefixBranch == "refs/heads/"
PrefixTag == "refs/tags/"

\* A reference name is its pieces one after the other; the default branch of
\* the repository is "main".
DefaultBranch == <<"main">>
HookRefs == {<<PrefixBranch, "main">>, <<PrefixBranch, "dev">>,
             <<PrefixTag, "main">>, <<"refs/pull/", "main">>}

ReferenceUpdates == [Ref : HookRefs, Old : HookSHAs, New : HookSHAs]
RefUpdateLists == UNION {[1..n -> ReferenceUpdates] : n \in 0..MaxRefUpdates}

ErrDefaultBranchCantBeDeleted == "The default branch of a repository can't be deleted"
ErrBlockedByRules == "Blocked by protection rules."

\* strings.HasPrefix and the slice that cuts the prefix off.
HasPrefix(ref, prefix) == ref # << >> /\ ref[1] = prefix
TrimPrefix(ref, prefix) == Tail(ref)

NoChanges == [created |-> << >>, deleted |-> << >>, updated |-> << >>]

\* Lines 141-150: changes.groupByAction
GroupByAction(c, refUpdate, name) ==
    IF refUpdate.Old = NilSHA THEN [c EXCEPT !.created = Append(@, name)]
    ELSE IF refUpdate.New = NilSHA THEN [c EXCEPT !.deleted = Append(@, name)]
    ELSE [c EXCEPT !.updated = Append(@, name)]

\* Lines 158-172: groupRefsByAction
RECURSIVE GroupRefs(_, _)
GroupRefs(refUpdates, c) ==
    IF refUpdates = << >> THEN c
    ELSE LET u == Head(refUpdates)
         IN  GroupRefs(Tail(refUpdates),
                IF HasPrefix(u.Ref, PrefixBranch)
                THEN [c EXCEPT !.branches = GroupByAction(@, u, TrimPrefix(u.Ref, PrefixBranch))]
                ELSE IF HasPrefix(u.Ref, PrefixTag)
                THEN [c EXCEPT !.tags = GroupByAction(@, u, TrimPrefix(u.Ref, PrefixTag))]
                ELSE [c EXCEPT !.other = GroupByAction(@, u, u.Ref)])

GroupRefsByAction(refUpdates) ==
    GroupRefs(refUpdates, [branches |-> NoChanges, tags |-> NoChanges, other |-> NoChanges])

\* An internal call returns before the default branch is looked at.
AfterGrouping_InternalFirst(internal, refUpdates) ==
    IF internal THEN "accept"
    ELSE IF \E n \in DOMAIN refUpdates.branches.deleted :
                refUpdates.branches.deleted[n] = DefaultBranch
    THEN "reject"
    ELSE "rules"

\* An internal call has its rules checked like any other.
AfterGrouping_NoInternal(internal, refUpdates) ==
    IF \E n \in DOMAIN refUpdates.branches.deleted :
            refUpdates.branches.deleted[n] = DefaultBranch
    THEN "reject"
    ELSE "rules"

\* Lines 54-63: a push that deletes the default branch is refused; an
\* internal call is let through; any other has the rules checked.
AfterGrouping(internal, refUpdates) ==
    IF \E n \in DOMAIN refUpdates.branches.deleted :
            refUpdates.branches.deleted[n] = DefaultBranch
    THEN "reject"
    ELSE IF internal THEN "accept"
    ELSE "rules"

\* githook.Output
HookOutput(error, messages) == [Error |-> error, Messages |-> messages]

\* createRPCWriteParams with isInternal = false.
CreateRPCExternalWriteParams(principal, repo) ==
    [RepoUID |-> repo.GitUID,
     EnvVars |-> [RepoID |-> repo.ID, PrincipalID |-> principal, Internal |-> FALSE]]

\* Lines 37-63: the hook is called for a push made with the environment of
\* some write parameters; the repository is looked up and the access checked,
\* the reference updates are grouped, and the call returns or goes on to
\* the rules.
PreReceiveCall ==
    /\ ad = NoAdapterCall
    /\ \E principal \in Principals, isInternal \in BOOLEAN,
          refUpdates \in RefUpdateLists, accessOK \in BOOLEAN :
        LET wparams == IF isInternal THEN CreateRPCInternalWriteParams(principal, Repo(1))
                       ELSE CreateRPCExternalWriteParams(principal, Repo(1))
            internal == wparams.EnvVars.Internal
            grouped == GroupRefsByAction(refUpdates)
            call == [fn |-> "PreReceive", pc |-> "done", internal |-> internal,
                     principalID |-> wparams.EnvVars.PrincipalID,
                     in |-> refUpdates, refUpdates |-> grouped,
                     calls |-> <<"RepoAccess">>, canPush |-> << >>,
                     ruleViolations |-> << >>,
                     output |-> HookOutput("", << >>), err |-> ""]
        IN  ad' = IF ~accessOK THEN [call EXCEPT !.err = "access"]
                  ELSE IF AfterGrouping(internal, grouped) = "reject"
                  THEN [call EXCEPT !.output.Error = ErrDefaultBranchCantBeDeleted]
                  ELSE IF AfterGrouping(internal, grouped) = "accept"
                  THEN call
                  ELSE [call EXCEPT !.pc = "rules"]
    /\ UNCHANGED <<mergeVars, rv, cf, bl>>

\* What CanPush may return: up to MaxViolations entries, one per rule, each
\* with the violations of the rule and whether the actor may bypass it.
HookViolations ==
    UNION {[1..m -> [Rule : {"r1"}, Bypassed : BOOLEAN,
                     Violations : {<< >>, <<"v1">>, <<"v1", "v2">>}]] :
           m \in 0..MaxViolations}

\* CanPush is asked about the branches created and updated.
CanPushBranches_Created(refUpdates) ==
    refUpdates.branches.created \o refUpdates.branches.updated

\* Lines 103-108: CanPush is asked about the branches that are updated.
CanPushBranches(refUpdates) == refUpdates.branches.updated

\* Lines 119-127: one message for every violation of every rule.
RECURSIVE HookMessages(_)
HookMessages(ruleViolations) ==
    IF ruleViolations = << >> THEN << >>
    ELSE LET rv1 == Head(ruleViolations)
         IN  [n \in DOMAIN rv1.Violations |->
                 <<"Rule ", rv1.Rule, " violation: ", rv1.Violations[n]>>]
             \o HookMessages(Tail(ruleViolations))

\* Lines 72-77 and 79-133: checkProtectionRules; failAt is the call that
\* fails (0: none).
PreReceiveRules ==
    /\ ad.fn = "PreReceive" /\ ad.pc = "rules"
    /\ \E failAt \in 0..3, isSpaceOwner \in BOOLEAN, v \in HookViolations :
        LET names == CanPushBranches(ad.refUpdates)
            asked == Len(names) > 0
            input == [Actor |-> ad.principalID, IsSpaceOwner |-> isSpaceOwner,
                      Repo |-> Repo(1), BranchNames |-> names]
            ruleViolations == IF asked THEN v ELSE << >>
        IN  /\ failAt = 3 => asked
            /\ ~asked => v = << >>
            /\ ad' = IF failAt = 1
                     THEN [ad EXCEPT !.pc = "done", !.calls = @ \o <<"IsSpaceAdmin">>,
                                     !.err = "failed to check protection rules"]
                     ELSE IF failAt = 2
                     THEN [ad EXCEPT !.pc = "done",
                                     !.calls = @ \o <<"IsSpaceAdmin", "RulesLoad">>,
                                     !.err = "failed to check protection rules"]
                     ELSE IF failAt = 3
                     THEN [ad EXCEPT !.pc = "done",
                                     !.calls = @ \o <<"IsSpaceAdmin", "RulesLoad", "CanPush">>,
                                     !.canPush = <<input>>,
                                     !.err = "failed to check protection rules"]
                     ELSE [ad EXCEPT !.pc = "done",
                                     !.calls = @ \o <<"IsSpaceAdmin", "RulesLoad">>
                                                 \o (IF asked THEN <<"CanPush">> ELSE << >>),
                                     !.canPush = IF asked THEN <<input>> ELSE << >>,
                                     !.ruleViolations = ruleViolations,
                                     !.output = HookOutput(
                                         IF IsCritical(ruleViolations)
                                         THEN ErrBlockedByRules ELSE "",
                                         HookMessages(ruleViolations))]
    /\ UNCHANGED <<mergeVars, rv, cf, bl>>

PreReceiveNext == PreReceiveCall \/ PreReceiveRules \/ AdapterReturn

PreReceiveSpec == QuietInit /\ [][PreReceiveNext]_vars

\* The push deletes the default branch.
DeletesDefaultBranch(refUpdates) ==
    \E n \in DOMAIN refUpdates :
        /\ refUpdates[n].Ref = <<PrefixBranch>> \o DefaultBranch
        /\ refUpdates[n].Old # NilSHA /\ refUpdates[n].New = NilSHA

\* The calls that load or evaluate protection rules in the hook.
HookRuleCalls == {"IsSpaceAdmin", "RulesLoad", "CanPush"}

\* C37: a PreReceive call, internal or not, for a push that deletes the
\* default branch ends with output.Error set to the default-branch error and
\* without any protection rule loaded or evaluated (when the access check
\* fails the call ends with that error, also without any rule).
DefaultBranchDeletionRejected ==
    (ad.fn = "PreReceive" /\ DeletesDefaultBranch(ad.in))
    => /\ ad.pc = "done"
       /\ Range(ad.calls) \cap HookRuleCalls = {}
       /\ ad.canPush = << >>
       /\ ad.err = "" => ad.output = HookOutput(ErrDefaultBranchCantBeDeleted, << >>)
       /\ ad.err # "" => ad.err = "access"

\* An internal call for a push that deletes the default branch and updates
\* another branch was refused.
DefaultBranchDeletionWitness ==
    /\ ad.fn = "PreReceive" /\ ad.internal /\ DeletesDefaultBranch(ad.in)
    /\ Len(ad.in) = 2 /\ ad.refUpdates.branches.updated # << >>
    /\ ad.output.Error = ErrDefaultBranchCantBeDeleted

\* C38: an internal PreReceive call for a push that does not delete the
\* default branch loads and evaluates no protection rule and, the access
\* granted, returns an output without error and without messages: a git
\* write made with the write parameters of CreateRPCInternalWriteParams, as
\* those of CommitFiles and Merge are, is not blocked by rules in the hook.
InternalSkipsRules ==
    (ad.fn = "PreReceive" /\ ad.internal /\ ~DeletesDefaultBranch(ad.in))
    => /\ ad.pc = "done"
       /\ Range(ad.calls) \cap HookRuleCalls = {}
       /\ ad.canPush = << >> /\ ad.ruleViolations = << >>
       /\ ad.err = "" => ad.output = HookOutput("", << >>)
       /\ ad.err # "" => ad.err = "access"

\* An internal call for a push that updates the default branch was let
\* through.
InternalSkipsRulesWitness ==
    /\ ad.fn = "PreReceive" /\ ad.internal /\ ad.err = ""
    /\ ad.refUpdates.branches.updated = <<DefaultBranch>>
    /\ ad.output = HookOutput("", << >>)

\* The branches of a push that are updated, in order.
RECURSIVE UpdatedBranches(_)
UpdatedBranches(refUpdates) ==
    IF refUpdates = << >> THEN << >>
    ELSE LET u == Head(refUpdates)
         IN  (IF u.Ref[1] = PrefixBranch /\ u.Old # NilSHA /\ u.New # NilSHA
              THEN <<Tail(u.Ref)>> ELSE << >>)
             \o UpdatedBranches(Tail(refUpdates))

\* The number of violations in the entries of a list of rule violations.
RECURSIVE CountViolations(_)
CountViolations(ruleViolations) ==
    IF ruleViolations = << >> THEN 0
    ELSE Len(Head(ruleViolations).Violations) + CountViolations(Tail(ruleViolations))

\* C39: an external PreReceive call asks CanPush at most once, only when
\* the push updates branches and only about those, not about branches that
\* are created or deleted, tags or other references; when the call ends
\* without an error of its own, output.Error is 'Blocked by protection rules.'
\* if and only if a rule violation returned is critical, and is empty
\* otherwise, and the output has one message for every violation, of bypassed
\* rules as well.
ExternalPushChecked ==
    (ad.fn = "PreReceive" /\ ~ad.internal /\ ~DeletesDefaultBranch(ad.in))
    => /\ Len(ad.canPush) <= 1
       /\ \A n \in DOMAIN ad.canPush :
            /\ ad.canPush[n].BranchNames = UpdatedBranches(ad.in)
            /\ ad.canPush[n].BranchNames # << >>
            /\ ad.canPush[n].Actor = ad.principalID
       /\ (ad.pc = "done" /\ ad.err = "")
          => /\ ad.canPush = << >> <=> UpdatedBranches(ad.in) = << >>
             /\ ad.output.Error = ErrBlockedByRules <=> IsCritical(ad.ruleViolations)
             /\ ad.output.Error \in {"", ErrBlockedByRules}
             /\ Len(ad.output.Messages) = CountViolations(ad.ruleViolations)
             /\ \A n \in DOMAIN ad.ruleViolations :
                    \A m \in DOMAIN ad.ruleViolations[n].Violations :
                        \E k \in DOMAIN ad.output.Messages :
                            /\ ad.output.Messages[k][2] = ad.ruleViolations[n].Rule
                            /\ ad.output.Messages[k][4] = ad.ruleViolations[n].Violations[m]

\* A push that creates one branch and updates another: CanPush was asked
\* about the updated one and returned a bypassed rule with two violations;
\* the output has two messages and no error.
ExternalPushWitness ==
    /\ ad.fn = "PreReceive" /\ ~ad.internal /\ ad.pc = "done" /\ ad.err = ""
    /\ ad.refUpdates.branches.created # << >>
    /\ Len(ad.canPush) = 1 /\ Len(ad.canPush[1].BranchNames) = 1
    /\ Len(ad.ruleViolations) = 1 /\ ad.ruleViolations[1].Bypassed
    /\ Len(ad.output.Messages) = 2 /\ ad.output.Error = ""

====
